---- MODULE Spec2Model ----
(***************************************************************************)
(* A model of the guardrail evaluation and execution-gating code of        *)
(* inframesh: the safety layer (pkg/safety), the policy engine             *)
(* (pkg/policy), the CLI executor (pkg/executor), the `run` command        *)
(* (cmd/infracore), access control (pkg/rbac), the skill registry          *)
(* (pkg/skills), risk levels (pkg/core), and retry and the circuit         *)
(* breaker (pkg/resilience).                                               *)
(*                                                                         *)
(* Strings whose characters the code inspects (skill names, patterns,      *)
(* environment names) are sequences of one-character strings.  Strings     *)
(* the code only compares or prints are TLA+ strings.                      *)
(***************************************************************************)
EXTENDS Integers, Sequences, FiniteSets, TLC

VARIABLES
    policies,         \* policy.Engine.policies, in registration order
    enforcementMode,  \* policy.Engine.enforcementMode
    dryRun,           \* CLIExecutor.dryRun
    safetyLayer,      \* CLIExecutor.safetyLayer != nil
    op,               \* the operation that ran last
    req,              \* its arguments (skill, params, env, now)
    report,           \* the SafetyReport it produced
    policyResult,     \* the EvaluationResult it produced
    result,           \* the ExecutionResult / verdict / terminal outcome it produced
    users,            \* rbac.Engine.users: username -> role
    rbacEnabled,      \* rbac.Engine.enabled
    pc,               \* where each goroutine is in the registry method it runs
    mu,               \* skills.Registry.mu: the writer and the readers holding it
    riskText,         \* a risk level as text, and the level it was printed from
    riskParsed,       \* what ParseRiskLevel returned for a text
    cb,               \* resilience.CircuitBreaker: state, counters, failureThreshold
    elapsed,          \* time.Since(cb.lastFailureTime), up to just past resetTimeout
    cbCalls,          \* each goroutine's CircuitBreaker.Execute call: idle or inside fn
    cbLog,            \* the calls finished on the breaker so far, oldest first
    retry             \* a WithRetry call: its policy, loop counter and RetryResult

vars == <<policies, enforcementMode, dryRun, safetyLayer, op, req, report,
          policyResult, result, users, rbacEnabled, pc, mu, riskText, riskParsed,
          cb, elapsed, cbCalls, cbLog, retry>>

\* the state of the access-control engine, of the goroutines and of risk texts
rbacVars == <<users, rbacEnabled>>
raceVars == <<pc, mu>>
riskVars == <<riskText, riskParsed>>
resVars == <<cb, elapsed, cbCalls, cbLog, retry>>

(***************************************************************************)
(* Go strings package, on sequences of characters.                         *)
(***************************************************************************)
UpperLetters == <<"A","B","C","D","E","F","G","H","I","J","K","L","M","N","O","P","Q","R","S","T","U","V","W","X","Y","Z">>
LowerLetters == <<"a","b","c","d","e","f","g","h","i","j","k","l","m","n","o","p","q","r","s","t","u","v","w","x","y","z">>

ToLowerChar(c) ==
    IF \E i \in DOMAIN UpperLetters : UpperLetters[i] = c
    THEN LowerLetters[CHOOSE i \in DOMAIN UpperLetters : UpperLetters[i] = c]
    ELSE c

ToLower(s) == [i \in DOMAIN s |-> ToLowerChar(s[i])]

EqualFold(a, b) == ToLower(a) = ToLower(b)

HasPrefix(s, prefix) ==
    /\ Len(s) >= Len(prefix)
    /\ SubSeq(s, 1, Len(prefix)) = prefix

HasSuffix(s, suffix) ==
    /\ Len(s) >= Len(suffix)
    /\ SubSeq(s, Len(s) - Len(suffix) + 1, Len(s)) = suffix

TrimSuffix(s, suffix) ==
    IF HasSuffix(s, suffix) THEN SubSeq(s, 1, Len(s) - Len(suffix)) ELSE s

Contains(s, substr) ==
    \E i \in 0..(Len(s) - Len(substr)) : SubSeq(s, i + 1, i + Len(substr)) = substr

(***************************************************************************)
(* core.RiskLevel                                                          *)
(***************************************************************************)
RiskLow == 0
RiskMedium == 1
RiskHigh == 2
RiskCritical == 3
RiskLevels == {RiskLow, RiskMedium, RiskHigh, RiskCritical}

(***************************************************************************)
(* Parameter values: Go's interface{} holding a bool, string, int or map.  *)
(***************************************************************************)
BoolVal(b) == [t |-> "bool", b |-> b, s |-> "", i |-> 0, m |-> {}]
StrVal(s) == [t |-> "string", b |-> FALSE, s |-> s, i |-> 0, m |-> {}]
IntVal(i) == [t |-> "int", b |-> FALSE, s |-> "", i |-> i, m |-> {}]
\* a map[string]interface{} value, by its keys
MapVal(keys) == [t |-> "map", b |-> FALSE, s |-> "", i |-> 0, m |-> keys]

\* fmt.Sprintf("%v", val)
Sprint(val) ==
    CASE val.t = "bool" -> IF val.b THEN "true" ELSE "false"
      [] val.t = "string" -> val.s
      [] val.t = "int" -> ToString(val.i)
      [] OTHER -> "map"

Has(params, key) == key \in DOMAIN params

\* every map that gives some of the keys of KV one of that key's values
ParamMaps(KV) ==
    UNION { { f \in [K -> UNION {KV[k] : k \in K}] : \A k \in K : f[k] \in KV[k] }
            : K \in SUBSET (DOMAIN KV) }

(***************************************************************************)
(* Skill names, patterns and environment names used by the code and by     *)
(* its tests.                                                              *)
(***************************************************************************)
n_aws_s3_sync == <<"a","w","s",".","s","3",".","s","y","n","c">>
n_aws_ec2_list == <<"a","w","s",".","e","c","2",".","l","i","s","t">>
n_aws_ec2_scale == <<"a","w","s",".","e","c","2",".","s","c","a","l","e">>
n_aws_sg_audit == <<"a","w","s",".","s","g",".","a","u","d","i","t">>
n_k8s_deploy == <<"k","8","s",".","d","e","p","l","o","y">>
n_terraform_apply == <<"t","e","r","r","a","f","o","r","m",".","a","p","p","l","y">>
n_helm_upgrade == <<"h","e","l","m",".","u","p","g","r","a","d","e">>
n_argocd_sync == <<"a","r","g","o","c","d",".","s","y","n","c">>
n_aws_secrets_rotate == <<"a","w","s",".","s","e","c","r","e","t","s",".","r","o","t","a","t","e">>
n_azure_vm_resize == <<"a","z","u","r","e",".","v","m",".","r","e","s","i","z","e">>

p_star == <<"*">>
p_aws_s3 == <<"a","w","s",".","s","3",".","*">>
p_aws_ec2 == <<"a","w","s",".","e","c","2",".","*">>
p_aws_lambda == <<"a","w","s",".","l","a","m","b","d","a",".","*">>
p_gcp_gce == <<"g","c","p",".","g","c","e",".","*">>
p_azure_vm == <<"a","z","u","r","e",".","v","m",".","*">>
p_aws_sg == <<"a","w","s",".","s","g",".","*">>
p_gcp_gcs == <<"g","c","p",".","g","c","s",".","*">>
p_azure_blob == <<"a","z","u","r","e",".","b","l","o","b",".","*">>

e_production == <<"p","r","o","d","u","c","t","i","o","n">>
e_prod == <<"p","r","o","d">>
e_prd == <<"p","r","d">>
e_PROD == <<"P","R","O","D">>
e_Prd == <<"P","r","d">>
e_Production == <<"P","r","o","d","u","c","t","i","o","n">>
e_staging == <<"s","t","a","g","i","n","g">>
e_dev == <<"d","e","v">>

(***************************************************************************)
(* Command templates: literal text and {key} placeholders.                 *)
(***************************************************************************)
Lit(text) == [ph |-> FALSE, text |-> text]
Ph(key) == [ph |-> TRUE, text |-> key]

\* Execution.Command of the catalogued skills the model uses
CommandOf(name) ==
    CASE name = n_k8s_deploy ->
           <<Lit("kubectl set image deployment/"), Ph("name"), Lit(" "), Ph("container"),
             Lit("="), Ph("image"), Lit(" -n "), Ph("namespace")>>
      [] name = n_aws_s3_sync -> <<Lit("aws s3 sync")>>
      [] name = n_aws_ec2_list -> <<Lit("aws ec2 describe-instances --filters")>>
      [] name = n_aws_ec2_scale ->
           <<Lit("aws autoscaling update-auto-scaling-group --desired-capacity")>>
      [] name = n_terraform_apply -> <<Lit("terraform apply -auto-approve")>>
      [] OTHER -> <<Lit("run")>>

\* Provider and Category of the catalogued skills the model uses
ProviderOf(name) ==
    CASE name = n_k8s_deploy -> "k8s"
      [] name = n_terraform_apply -> "terraform"
      [] OTHER -> "aws"

CategoryOf(name) ==
    CASE name = n_k8s_deploy \/ name = n_terraform_apply -> "deployment"
      [] name = n_aws_s3_sync -> "storage"
      [] name = n_aws_sg_audit -> "networking"
      [] OTHER -> "compute"

\* a core.Skill value
Skill(name, risk, confirm) ==
    [Name |-> name, Provider |-> ProviderOf(name), Category |-> CategoryOf(name),
     RiskLevel |-> risk,
     RequiresConfirmation |-> confirm,
     Rollback |-> [Supported |-> confirm, Procedure |-> IF confirm THEN "revert" ELSE ""],
     Command |-> CommandOf(name)]

(***************************************************************************)
(* pkg/safety: Layer                                                       *)
(***************************************************************************)
k_list == <<".","l","i","s","t">>
k_audit == <<".","a","u","d","i","t">>
k_query == <<".","q","u","e","r","y">>
k_report == <<".","r","e","p","o","r","t">>
k_status == <<".","s","t","a","t","u","s">>
k_snapshot == <<".","s","n","a","p","s","h","o","t">>
k_deploy == <<".","d","e","p","l","o","y">>
k_upgrade == <<".","u","p","g","r","a","d","e">>
k_scale == <<".","s","c","a","l","e">>
k_sync == <<".","s","y","n","c">>
k_migrate == <<".","m","i","g","r","a","t","e">>

destructiveKeywords ==
    << <<"a","p","p","l","y">>, <<"d","e","p","l","o","y">>, <<"s","c","a","l","e">>,
       <<"r","e","s","i","z","e">>, <<"d","e","l","e","t","e">>, <<"r","o","t","a","t","e">>,
       <<"s","y","n","c">>, <<"m","i","g","r","a","t","e">>, <<"u","p","d","a","t","e">>,
       <<"u","p","g","r","a","d","e">>, <<"r","o","l","l","b","a","c","k">> >>

resourceKeys ==
    <<"instance_id", "bucket_name", "vpc_id", "deployment", "function_name", "asg_name",
      "secret_id", "release_name", "app_name", "vm_name", "zone", "image">>

ProductionWarning == "TARGET ENVIRONMENT IS PRODUCTION - exercise extreme caution"

isProductionEnvironment_CaseSensitive(env) ==
    env = e_production \/ env = e_prod \/ env = e_prd

isProductionEnvironment(env) ==
    LET lower == ToLower(env)
    IN  lower = e_production \/ lower = e_prod \/ lower = e_prd

\* a variant of escalateRisk that overwrites the risk instead of raising it
escalateRisk_Overwrite(risk) == RiskHigh

\* Evaluate's `if report.RiskLevel < core.RiskHigh { report.RiskLevel = core.RiskHigh }`
escalateRisk(risk) == IF risk < RiskHigh THEN RiskHigh ELSE risk

\* a variant of getConfirmationPrompt that asks for "yes" at High as at Medium
getConfirmationPrompt_YesAtHigh(riskLevel) ==
    CASE riskLevel = RiskLow -> <<>>
      [] riskLevel \in {RiskMedium, RiskHigh} ->
           <<"Type \"", "yes", "\" to proceed or \"cancel\" to abort">>
      [] riskLevel = RiskCritical ->
           <<"Type \"", "CONFIRM PRODUCTION", "\" to proceed or \"cancel\" to abort">>
      [] OTHER -> <<"Type \"", "yes", "\" to proceed">>

\* the prompt as the pieces of its text: the phrase to type is the second piece
getConfirmationPrompt(riskLevel) ==
    CASE riskLevel = RiskLow -> <<>>
      [] riskLevel = RiskMedium -> <<"Type \"", "yes", "\" to proceed or \"cancel\" to abort">>
      [] riskLevel = RiskHigh -> <<"Type \"", "yes, apply", "\" to proceed or \"cancel\" to abort">>
      [] riskLevel = RiskCritical ->
           <<"Type \"", "CONFIRM PRODUCTION", "\" to proceed or \"cancel\" to abort">>
      [] OTHER -> <<"Type \"", "yes", "\" to proceed">>

estimateFromParam(params, key, fallback) ==
    IF Has(params, key) /\ params[key].t = "int" THEN params[key].i ELSE fallback

estimateBlastRadius(skill, params) ==
    CASE \/ Contains(skill.Name, k_list) \/ Contains(skill.Name, k_audit)
         \/ Contains(skill.Name, k_query) \/ Contains(skill.Name, k_report)
         \/ Contains(skill.Name, k_status) \/ Contains(skill.Name, k_snapshot) -> 0
      [] OTHER ->
         CASE Contains(skill.Name, k_deploy) \/ Contains(skill.Name, k_upgrade) -> 1
           [] OTHER ->
              CASE Contains(skill.Name, k_scale) ->
                     estimateFromParam(params, "desired_capacity", 1)
                [] OTHER ->
                   CASE Contains(skill.Name, n_terraform_apply) ->
                          estimateFromParam(params, "resources_count", 5)
                     [] OTHER ->
                        CASE Contains(skill.Name, k_sync) \/ Contains(skill.Name, k_migrate) -> 10
                          [] OTHER -> 1

RECURSIVE resourcesFrom(_, _)
resourcesFrom(keys, params) ==
    IF keys = <<>> THEN <<>>
    ELSE (IF Has(params, Head(keys))
          THEN << <<Head(keys), Sprint(params[Head(keys)])>> >>
          ELSE <<>>) \o resourcesFrom(Tail(keys), params)

\* entries are <<provider, category>> for "{provider}/{category} resources", then <<key, value>>
identifyAffectedResources(skill, params) ==
    << <<skill.Provider, skill.Category>> >> \o resourcesFrom(resourceKeys, params)

Layer_shouldDryRun(skill) ==
    \E i \in DOMAIN destructiveKeywords : Contains(ToLower(skill.Name), destructiveKeywords[i])

Layer_Evaluate(skill, params, env) ==
    LET prod == isProductionEnvironment(env)
        risk == IF prod THEN escalateRisk(skill.RiskLevel) ELSE skill.RiskLevel
    IN  [SkillName |-> skill.Name,
         RiskLevel |-> risk,
         BlastRadius |-> estimateBlastRadius(skill, params),
         AffectedResources |-> identifyAffectedResources(skill, params),
         RequiresConfirmation |-> IF prod THEN TRUE ELSE skill.RequiresConfirmation,
         ConfirmationPrompt |-> getConfirmationPrompt(risk),
         RollbackAvailable |-> skill.Rollback.Supported,
         RollbackProcedure |-> skill.Rollback.Procedure,
         DryRunRecommended |-> Layer_shouldDryRun(skill),
         EnvironmentWarning |-> IF prod THEN ProductionWarning ELSE ""]

Layer_RequiresConfirmation(riskLevel) == riskLevel >= RiskMedium

(***************************************************************************)
(* pkg/policy: Engine and the built-in policies                            *)
(***************************************************************************)
EnforcementWarn == "warn"
EnforcementDeny == "deny"

Saturday == 6
Sunday == 0

CheckOk == [violated |-> FALSE, reason |-> "", fault |-> FALSE]
CheckViolated(reason) == [violated |-> TRUE, reason |-> reason, fault |-> FALSE]
\* a CheckFunc that panics (a nil CheckFunc included)
CheckFault == [violated |-> FALSE, reason |-> "", fault |-> TRUE]

noPublicS3Check(skill, params, env, now) ==
    IF Has(params, "acl") /\ Sprint(params["acl"]) \in {"public-read", "public-read-write"}
    THEN CheckViolated("public ACL")
    ELSE CheckOk

requiredTags == {"team", "env", "service"}

requireTagsCheck(skill, params, env, now) ==
    IF ~Has(params, "tags") THEN CheckViolated("missing required tags")
    ELSE IF params["tags"].t # "map" THEN CheckViolated("tags must be a key-value map")
    ELSE IF requiredTags \ params["tags"].m # {} THEN CheckViolated("missing required tags")
    ELSE CheckOk

sensitivePorts == {"22", "3389", "3306", "5432"}

noWideOpenSGCheck(skill, params, env, now) ==
    IF Has(params, "cidr") /\ Sprint(params["cidr"]) \in {"0.0.0.0/0", "::/0"}
    THEN IF Has(params, "port") /\ Sprint(params["port"]) \in sensitivePorts
         THEN CheckViolated("cannot open port")
         ELSE CheckViolated("too permissive")
    ELSE CheckOk

productionDeployWindowCheck(skill, params, env, now) ==
    IF now.weekday = Saturday \/ now.weekday = Sunday THEN CheckViolated("weekend")
    ELSE IF now.hour < 9 \/ now.hour > 17 THEN CheckViolated("outside business hours")
    ELSE CheckOk

\* a variant of requirePeerReviewCheck that any parameter satisfies
requirePeerReviewCheck_AnyParam(skill, params, env, now) ==
    IF skill.RiskLevel >= RiskCritical /\ DOMAIN params = {}
    THEN CheckViolated("requires peer review")
    ELSE CheckOk

requirePeerReviewCheck(skill, params, env, now) ==
    IF skill.RiskLevel >= RiskCritical /\ ~Has(params, "_peer_reviewer")
    THEN CheckViolated("requires peer review")
    ELSE CheckOk

maxBlastRadiusCheck(skill, params, env, now) ==
    IF /\ Has(params, "_resource_count")
       /\ params["_resource_count"].t = "int"
       /\ params["_resource_count"].i > 50
    THEN CheckViolated("too many resources")
    ELSE CheckOk

noDirectProdAccessCheck(skill, params, env, now) ==
    IF ~Has(params, "_iac_managed") THEN CheckViolated("not IaC managed") ELSE CheckOk

enforceEncryptionCheck(skill, params, env, now) ==
    IF Has(params, "encryption") /\ Sprint(params["encryption"]) \in {"none", "false"}
    THEN CheckViolated("encryption disabled")
    ELSE CheckOk

\* policy.CheckFunc(skill, params, env): the policy's CheckFunc field names the function
CheckFunc(policy, skill, params, env, now) ==
    CASE policy.CheckFunc = "no_public_s3" -> noPublicS3Check(skill, params, env, now)
      [] policy.CheckFunc = "require_tags" -> requireTagsCheck(skill, params, env, now)
      [] policy.CheckFunc = "no_wide_open_sg" -> noWideOpenSGCheck(skill, params, env, now)
      [] policy.CheckFunc = "production_deploy_window" ->
           productionDeployWindowCheck(skill, params, env, now)
      [] policy.CheckFunc = "require_peer_review" ->
           requirePeerReviewCheck(skill, params, env, now)
      [] policy.CheckFunc = "max_blast_radius" -> maxBlastRadiusCheck(skill, params, env, now)
      [] policy.CheckFunc = "no_direct_prod_access" ->
           noDirectProdAccessCheck(skill, params, env, now)
      [] policy.CheckFunc = "enforce_encryption" ->
           enforceEncryptionCheck(skill, params, env, now)
      [] policy.CheckFunc = "always" -> CheckViolated("always fails")
      [] policy.CheckFunc = "panic" -> CheckFault
      [] OTHER -> CheckOk

Policy(name, enforcement, severity, appliesTo, environments, check) ==
    [Name |-> name, Enforcement |-> enforcement, Severity |-> severity,
     AppliesTo |-> appliesTo, Environments |-> environments, CheckFunc |-> check]

noPublicS3Policy ==
    Policy("no_public_s3", EnforcementDeny, "CRITICAL", <<p_aws_s3>>, <<>>, "no_public_s3")
requireTagsPolicy ==
    Policy("require_tags", EnforcementWarn, "WARNING",
           <<p_aws_ec2, p_aws_lambda, p_gcp_gce, p_azure_vm>>, <<>>, "require_tags")
noWideOpenSGPolicy ==
    Policy("no_wide_open_sg", EnforcementDeny, "CRITICAL", <<p_aws_sg>>, <<>>,
           "no_wide_open_sg")
productionDeployWindowPolicy ==
    Policy("production_deploy_window", EnforcementWarn, "WARNING",
           <<n_k8s_deploy, n_helm_upgrade, n_terraform_apply, n_argocd_sync>>,
           <<e_production, e_prod>>, "production_deploy_window")
requirePeerReviewPolicy ==
    Policy("require_peer_review", EnforcementDeny, "CRITICAL",
           <<n_terraform_apply, n_k8s_deploy, n_aws_secrets_rotate>>,
           <<e_production, e_prod>>, "require_peer_review")
maxBlastRadiusPolicy ==
    Policy("max_blast_radius", EnforcementDeny, "CRITICAL", <<p_star>>, <<>>,
           "max_blast_radius")
noDirectProdAccess ==
    Policy("no_direct_prod_access", EnforcementWarn, "WARNING",
           <<n_aws_ec2_scale, n_azure_vm_resize, p_aws_sg>>,
           <<e_production, e_prod>>, "no_direct_prod_access")
enforceEncryptionPolicy ==
    Policy("enforce_encryption", EnforcementDeny, "CRITICAL",
           <<p_aws_s3, p_gcp_gcs, p_azure_blob>>, <<>>, "enforce_encryption")

BuiltinPolicies ==
    <<noPublicS3Policy, requireTagsPolicy, noWideOpenSGPolicy, productionDeployWindowPolicy,
      requirePeerReviewPolicy, maxBlastRadiusPolicy, noDirectProdAccess,
      enforceEncryptionPolicy>>

\* a variant of matchSkillPattern that drops the dot after the prefix of `prefix.*`
matchSkillPattern_NoDot(skillName, pattern) ==
    IF pattern = <<"*">> THEN TRUE
    ELSE IF HasSuffix(pattern, <<".", "*">>)
         THEN HasPrefix(skillName, TrimSuffix(pattern, <<".", "*">>))
    ELSE IF HasSuffix(pattern, <<"*">>)
         THEN HasPrefix(skillName, TrimSuffix(pattern, <<"*">>))
    ELSE skillName = pattern

matchSkillPattern(skillName, pattern) ==
    IF pattern = <<"*">> THEN TRUE
    ELSE IF HasSuffix(pattern, <<".", "*">>)
         THEN HasPrefix(skillName, TrimSuffix(pattern, <<".", "*">>) \o <<".">>)
    ELSE IF HasSuffix(pattern, <<"*">>)
         THEN HasPrefix(skillName, TrimSuffix(pattern, <<"*">>))
    ELSE skillName = pattern

policyApplies(policy, skill, env) ==
    /\ Len(policy.AppliesTo) > 0 =>
         \E i \in DOMAIN policy.AppliesTo : matchSkillPattern(skill.Name, policy.AppliesTo[i])
    /\ Len(policy.Environments) > 0 =>
         \E i \in DOMAIN policy.Environments : EqualFold(policy.Environments[i], env)

\* a variant of effectiveEnforcement that keeps the rule's own enforcement
effectiveEnforcement_Declared(mode, declared) == declared

\* a variant of effectiveEnforcement that takes the stricter of the two
effectiveEnforcement_Stricter(mode, declared) ==
    IF mode = EnforcementDeny \/ declared = EnforcementDeny
    THEN EnforcementDeny
    ELSE EnforcementWarn

\* Evaluate's effectiveEnforcement, from the engine's mode and policy.Enforcement
effectiveEnforcement(mode, declared) ==
    IF mode = EnforcementDeny THEN EnforcementDeny
    ELSE IF mode = EnforcementWarn THEN EnforcementWarn
    ELSE declared

Violation(policy, reason, skill, env, now) ==
    [PolicyName |-> policy.Name, Severity |-> policy.Severity,
     Enforcement |-> policy.Enforcement, Reason |-> reason, SkillName |-> skill.Name,
     Environment |-> env, Timestamp |-> now]

\* the EvaluationResult Evaluate starts from; panicked: a CheckFunc panicked and the
\* panic left Evaluate, so that the caller got no result
EmptyResult == [Passed |-> TRUE, Denied |-> FALSE, Violations |-> <<>>, Warnings |-> <<>>,
                panicked |-> FALSE]

\* Evaluate's `if effectiveEnforcement == EnforcementDeny { ... } else { ... }`
recordViolation(res, v, effective) ==
    IF effective = EnforcementDeny
    THEN [res EXCEPT !.Violations = Append(@, v), !.Passed = FALSE, !.Denied = TRUE]
    ELSE [res EXCEPT !.Warnings = Append(@, v)]

\* a variant of the loop that stops at the first deny
RECURSIVE EvaluateLoop_ShortCircuit(_, _, _, _, _, _, _)
EvaluateLoop_ShortCircuit(ps, mode, skill, params, env, now, res) ==
    IF ps = <<>> \/ res.Denied THEN res
    ELSE LET policy == Head(ps)
             check == CheckFunc(policy, skill, params, env, now)
         IN  IF ~policyApplies(policy, skill, env)
             THEN EvaluateLoop_ShortCircuit(Tail(ps), mode, skill, params, env, now, res)
             ELSE IF check.fault THEN [res EXCEPT !.panicked = TRUE]
             ELSE IF ~check.violated
             THEN EvaluateLoop_ShortCircuit(Tail(ps), mode, skill, params, env, now, res)
             ELSE EvaluateLoop_ShortCircuit(Tail(ps), mode, skill, params, env, now,
                    recordViolation(res, Violation(policy, check.reason, skill, env, now),
                                    effectiveEnforcement(mode, policy.Enforcement)))

\* Evaluate's `for _, policy := range e.policies`, from the policies still to visit
RECURSIVE EvaluateLoop(_, _, _, _, _, _, _)
EvaluateLoop(ps, mode, skill, params, env, now, res) ==
    IF ps = <<>> THEN res
    ELSE LET policy == Head(ps)
             check == CheckFunc(policy, skill, params, env, now)
         IN  IF ~policyApplies(policy, skill, env)
             THEN EvaluateLoop(Tail(ps), mode, skill, params, env, now, res)
             ELSE IF check.fault THEN [res EXCEPT !.panicked = TRUE]
             ELSE IF ~check.violated
             THEN EvaluateLoop(Tail(ps), mode, skill, params, env, now, res)
             ELSE EvaluateLoop(Tail(ps), mode, skill, params, env, now,
                    recordViolation(res, Violation(policy, check.reason, skill, env, now),
                                    effectiveEnforcement(mode, policy.Enforcement)))

Engine_Evaluate(ps, mode, skill, params, env, now) ==
    EvaluateLoop(ps, mode, skill, params, env, now, EmptyResult)

(***************************************************************************)
(* pkg/executor: CLIExecutor                                               *)
(***************************************************************************)
StatusSuccess == "success"
StatusFailed == "failed"
StatusDryRun == "dry_run"
StatusPending == "pending"

NilParams == <<>>

\* a variant of hasConfirmation that takes any value printed as "true"
hasConfirmation_AnyTrue(params) ==
    Has(params, "_confirmed") /\ Sprint(params["_confirmed"]) = "true"

hasConfirmation(params) ==
    Has(params, "_confirmed") /\ params["_confirmed"].t = "bool" /\ params["_confirmed"].b

hasForce(params) ==
    Has(params, "_force") /\ params["_force"].t = "bool" /\ params["_force"].b

\* shouldDryRun passes nil, not the request's params, to hasForce
CLIExecutor_shouldDryRun(skill) == skill.RiskLevel >= RiskHigh /\ ~hasForce(NilParams)

\* every {key} whose key is in params becomes the printed value
interpolateCommand(template, params) ==
    [i \in DOMAIN template |->
        IF template[i].ph /\ Has(params, template[i].text)
        THEN Lit(Sprint(params[template[i].text]))
        ELSE template[i]]

NoReport ==
    [SkillName |-> <<>>, RiskLevel |-> RiskLow, BlastRadius |-> 0, AffectedResources |-> <<>>,
     RequiresConfirmation |-> FALSE, ConfirmationPrompt |-> <<>>, RollbackAvailable |-> FALSE,
     RollbackProcedure |-> "", DryRunRecommended |-> FALSE, EnvironmentWarning |-> ""]

\* Status, Message (its fixed text, then the prompt or command it prints),
\* Output["command"], and ran: runCommand was called
ExecutionResult(status, text, detail, command, ran) ==
    [Status |-> status, Message |-> <<text, detail>>, Command |-> command, ran |-> ran]

NoExecution == ExecutionResult("", "", <<>>, <<>>, FALSE)

\* cmdOk: the shell command runCommand starts exits with status 0
CLIExecutor_Execute(layer, dry, skill, params, env, cmdOk) ==
    LET rep == Layer_Evaluate(skill, params, env)
        command == interpolateCommand(skill.Command, params)
    IN  IF layer /\ rep.RequiresConfirmation /\ ~hasConfirmation(params)
        THEN ExecutionResult(StatusPending, "Action requires confirmation: ",
                             rep.ConfirmationPrompt, <<>>, FALSE)
        ELSE IF dry \/ CLIExecutor_shouldDryRun(skill)
        THEN ExecutionResult(StatusDryRun, "[DRY RUN] Would execute: ", command, command,
                             FALSE)
        ELSE IF cmdOk
        THEN ExecutionResult(StatusSuccess, "Completed successfully", <<>>, command, TRUE)
        ELSE ExecutionResult(StatusFailed, "Command failed", <<>>, command, TRUE)

(***************************************************************************)
(* pkg/skills: the catalogued skills the model uses (registry.Get)         *)
(***************************************************************************)
Catalog ==
    {Skill(n_aws_ec2_list, RiskLow, FALSE), Skill(n_aws_ec2_scale, RiskMedium, TRUE),
     Skill(n_aws_s3_sync, RiskHigh, TRUE), Skill(n_k8s_deploy, RiskHigh, TRUE),
     Skill(n_terraform_apply, RiskCritical, TRUE)}

Registered(name) == \E s \in Catalog : s.Name = name
Registry_Get(name) == CHOOSE s \in Catalog : s.Name = name

(***************************************************************************)
(* pkg/rbac: Engine                                                        *)
(***************************************************************************)
RoleViewer == "viewer"
RoleOperator == "operator"
RoleAdmin == "admin"
RoleSuperAdmin == "superadmin"

e_qa == <<"q", "a">>
e_STAGING == <<"S", "T", "A", "G", "I", "N", "G">>

Permission(levels, envs, denyPatterns, approve, managePolicies, manageUsers) ==
    [AllowedRiskLevels |-> levels, AllowedEnvironments |-> envs,
     DenySkillPatterns |-> denyPatterns, CanApprove |-> approve,
     CanManagePolicies |-> managePolicies, CanManageUsers |-> manageUsers]

\* a variant of loadDefaultPermissions whose Admin stops at Medium
loadDefaultPermissions_AdminToMedium ==
    (RoleViewer :> Permission(<<RiskLow>>, <<e_staging, e_dev>>, <<>>, FALSE, FALSE, FALSE))
    @@ (RoleOperator :>
          Permission(<<RiskLow, RiskMedium>>, <<e_staging, e_dev, e_qa>>, <<>>,
                     FALSE, FALSE, FALSE))
    @@ (RoleAdmin :>
          Permission(<<RiskLow, RiskMedium>>,
                     <<e_staging, e_dev, e_qa, e_production>>, <<>>, TRUE, TRUE, FALSE))
    @@ (RoleSuperAdmin :>
          Permission(<<RiskLow, RiskMedium, RiskHigh, RiskCritical>>, <<>>, <<>>,
                     TRUE, TRUE, TRUE))

\* Engine.permissions after loadDefaultPermissions
loadDefaultPermissions ==
    (RoleViewer :> Permission(<<RiskLow>>, <<e_staging, e_dev>>, <<>>, FALSE, FALSE, FALSE))
    @@ (RoleOperator :>
          Permission(<<RiskLow, RiskMedium>>, <<e_staging, e_dev, e_qa>>, <<>>,
                     FALSE, FALSE, FALSE))
    @@ (RoleAdmin :>
          Permission(<<RiskLow, RiskMedium, RiskHigh>>,
                     <<e_staging, e_dev, e_qa, e_production>>, <<>>, TRUE, TRUE, FALSE))
    @@ (RoleSuperAdmin :>
          Permission(<<RiskLow, RiskMedium, RiskHigh, RiskCritical>>, <<>>, <<>>,
                     TRUE, TRUE, TRUE))

containsRisk(levels, target) == \E i \in DOMAIN levels : levels[i] = target

\* a variant of containsStr that compares the names letter for letter
containsStr_Exact(items, target) == \E i \in DOMAIN items : items[i] = target

containsStr(items, target) == \E i \in DOMAIN items : EqualFold(items[i], target)

matchPattern(name, pattern) ==
    IF pattern = <<"*">> THEN TRUE
    ELSE IF HasSuffix(pattern, <<"*">>) THEN HasPrefix(name, TrimSuffix(pattern, <<"*">>))
    ELSE name = pattern

\* a variant of AddUser that keeps the role a username already has
Rbac_AddUser_KeepFirst(us, username, role) ==
    [u \in DOMAIN us \cup {username} |-> IF u \in DOMAIN us THEN us[u] ELSE role]

\* e.users[username] = &User{...}
Rbac_AddUser(us, username, role) ==
    [u \in DOMAIN us \cup {username} |-> IF u = username THEN role ELSE us[u]]

Verdict(allowed, reason) == [allowed |-> allowed, reason |-> reason]

Rbac_CanExecute(us, enabled, username, skill, env) ==
    IF ~enabled THEN Verdict(TRUE, "")
    ELSE IF username \notin DOMAIN us THEN Verdict(FALSE, "Access denied: user not found")
    ELSE IF us[username] \notin DOMAIN loadDefaultPermissions
    THEN Verdict(FALSE, "No permissions defined for role")
    ELSE LET perm == loadDefaultPermissions[us[username]]
         IN  IF ~containsRisk(perm.AllowedRiskLevels, skill.RiskLevel)
             THEN Verdict(FALSE, "Role cannot execute operations of this risk")
             ELSE IF /\ Len(perm.AllowedEnvironments) > 0
                     /\ ~containsStr(perm.AllowedEnvironments, env)
             THEN Verdict(FALSE, "Role cannot access environment")
             ELSE IF \E i \in DOMAIN perm.DenySkillPatterns :
                        matchPattern(skill.Name, perm.DenySkillPatterns[i])
             THEN Verdict(FALSE, "Skill is denied for role")
             ELSE Verdict(TRUE, "")

Rbac_CanApprove(us, enabled, username) ==
    IF ~enabled THEN TRUE
    ELSE IF username \notin DOMAIN us THEN FALSE
    ELSE IF us[username] \notin DOMAIN loadDefaultPermissions THEN FALSE
    ELSE loadDefaultPermissions[us[username]].CanApprove

(***************************************************************************)
(* pkg/core: RiskLevel.String and ParseRiskLevel                           *)
(***************************************************************************)
RiskLevel_String(r) ==
    CASE r = RiskLow -> "LOW"
      [] r = RiskMedium -> "MEDIUM"
      [] r = RiskHigh -> "HIGH"
      [] r = RiskCritical -> "CRITICAL"
      [] OTHER -> "UNKNOWN"

Parsed(level, err) == [level |-> level, err |-> err]

\* a variant of ParseRiskLevel that also takes the names in lower case
ParseRiskLevel_FoldCase(s) ==
    CASE s \in {"LOW", "low"} -> Parsed(RiskLow, "")
      [] s \in {"MEDIUM", "medium"} -> Parsed(RiskMedium, "")
      [] s \in {"HIGH", "high"} -> Parsed(RiskHigh, "")
      [] s \in {"CRITICAL", "critical"} -> Parsed(RiskCritical, "")
      [] OTHER -> Parsed(RiskLow, "unknown risk level")

ParseRiskLevel(s) ==
    CASE s = "LOW" -> Parsed(RiskLow, "")
      [] s = "MEDIUM" -> Parsed(RiskMedium, "")
      [] s = "HIGH" -> Parsed(RiskHigh, "")
      [] s = "CRITICAL" -> Parsed(RiskCritical, "")
      [] OTHER -> Parsed(RiskLow, "unknown risk level")

(***************************************************************************)
(* The registries and the goroutines that read and write them              *)
(***************************************************************************)
\* skills.Registry, policy.Engine, rbac.Engine
Registries == {"skills", "policy", "rbac"}

\* only skills.Registry has a sync.RWMutex; the two engines have no lock
HasRWMutex(registry) == registry = "skills"

\* per registry one goroutine in a write method (Register, AddUser) and two in a
\* read method (Get, Evaluate, CanExecute)
Goroutines ==
    {<<r, "writer", "w">> : r \in Registries}
    \cup {<<r, "reader", n>> : r \in Registries, n \in {"r1", "r2"}}

RegistryOf(g) == g[1]
IsWriter(g) == g[2] = "writer"

(***************************************************************************)
(* pkg/resilience: WithRetry and CircuitBreaker                            *)
(***************************************************************************)
\* an error value: nil, or an error with its Error() text
NilErr == [isNil |-> TRUE, msg |-> <<>>]
Err(msg) == [isNil |-> FALSE, msg |-> msg]

m_timeout == <<"t","i","m","e","o","u","t">>
m_connection_refused == <<"c","o","n","n","e","c","t","i","o","n"," ","r","e","f","u","s","e","d">>
m_503 == <<"5","0","3">>
m_429 == <<"4","2","9">>
m_throttl == <<"t","h","r","o","t","t","l">>
m_rate_limit == <<"r","a","t","e"," ","l","i","m","i","t">>
m_Request_Timeout == <<"R","e","q","u","e","s","t"," ","T","i","m","e","o","u","t">>
m_permission_denied == <<"p","e","r","m","i","s","s","i","o","n"," ","d","e","n","i","e","d">>
m_fatal == <<"f","a","t","a","l">>

\* RetryPolicy: the fields WithRetry's loop reads (the backoff fields only set how
\* long it sleeps between two calls)
RetryPolicy(maxRetries, retryableErrs) ==
    [MaxRetries |-> maxRetries, RetryableErrs |-> retryableErrs]

DefaultRetryPolicy ==
    RetryPolicy(3, <<m_timeout, m_connection_refused, m_503, m_429, m_throttl, m_rate_limit>>)

\* isRetryable(errMsg, patterns)
isRetryable_EmptyMatchesNone(errMsg, patterns) ==
    \E i \in DOMAIN patterns : Contains(ToLower(errMsg), ToLower(patterns[i]))

isRetryable(errMsg, patterns) ==
    IF Len(patterns) = 0
    THEN TRUE
    ELSE \E i \in DOMAIN patterns : Contains(ToLower(errMsg), ToLower(patterns[i]))

\* RetryResult; Backoffs: how many backoffs were slept
RetryResult(attempts, succeeded, lastError, backoffs) ==
    [Attempts |-> attempts, Succeeded |-> succeeded, LastError |-> lastError,
     Backoffs |-> backoffs]

\* no WithRetry call is under way.  attempt: the loop counter; returns: what each
\* call of fn returned, in order
NoRetry ==
    [running |-> FALSE, done |-> FALSE, policy |-> RetryPolicy(0, <<>>), attempt |-> 0,
     returns |-> <<>>, result |-> RetryResult(0, FALSE, <<>>, 0)]

\* WithRetry up to the first test of the loop condition attempt <= policy.MaxRetries
WithRetry_Enter(policy) ==
    [running |-> 0 <= policy.MaxRetries, done |-> ~(0 <= policy.MaxRetries),
     policy |-> policy, attempt |-> 0, returns |-> <<>>,
     result |-> RetryResult(0, FALSE, <<>>, 0)]

\* one pass of WithRetry's loop body in which fn returns err, up to the next test of
\* the loop condition or the return
WithRetry_Attempt(w, err) ==
    LET attempts == w.attempt + 1
        last == IF err.isNil THEN w.result.LastError ELSE err.msg
        stop == \/ err.isNil
                \/ w.attempt = w.policy.MaxRetries
                \/ ~isRetryable(err.msg, w.policy.RetryableErrs)
    IN  [w EXCEPT !.returns = Append(@, err),
                  !.attempt = IF stop THEN @ ELSE @ + 1,
                  !.running = ~stop,
                  !.done = stop,
                  !.result = RetryResult(attempts, err.isNil, last,
                                         IF stop THEN @.Backoffs ELSE @.Backoffs + 1)]

\* CircuitState
StateClosed == "CLOSED"
StateOpen == "OPEN"
StateHalfOpen == "HALF_OPEN"

\* NewCircuitBreaker(name, failureThreshold, resetTimeout)
successThreshold == 2
NewCircuitBreaker(failureThreshold) ==
    [state |-> StateClosed, failureCount |-> 0, successCount |-> 0,
     failureThreshold |-> failureThreshold, successThreshold |-> successThreshold]

\* CircuitBreaker.transitionTo(newState)
transitionTo(c, newState) ==
    IF c.state = newState
    THEN c
    ELSE [c EXCEPT !.state = newState, !.failureCount = 0, !.successCount = 0]

\* a variant of CircuitBreaker_Admit that closes the breaker when the timeout passed
CircuitBreaker_Admit_CloseOnTimeout(c, expired) ==
    IF c.state = StateOpen
    THEN IF expired
         THEN [cb |-> [c EXCEPT !.state = StateClosed, !.failureCount = 0,
                                !.successCount = 0],
               admitted |-> StateClosed]
         ELSE [cb |-> c, admitted |-> "rejected"]
    ELSE [cb |-> c, admitted |-> c.state]

\* CircuitBreaker.Execute up to the call of fn, with cb.mu held.  expired:
\* time.Since(cb.lastFailureTime) > cb.resetTimeout.  admitted: the local `state`,
\* or "rejected" when Execute returns the error without calling fn
CircuitBreaker_Admit(c, expired) ==
    IF c.state = StateOpen
    THEN IF expired
         THEN [cb |-> transitionTo(c, StateHalfOpen), admitted |-> StateHalfOpen]
         ELSE [cb |-> c, admitted |-> "rejected"]
    ELSE [cb |-> c, admitted |-> c.state]

\* a variant of CircuitBreaker_Complete that trips one failure late
CircuitBreaker_Complete_Above(c, err) ==
    IF ~err.isNil
    THEN LET counted == [c EXCEPT !.failureCount = @ + 1]
         IN  IF counted.state = StateHalfOpen
                \/ counted.failureCount > counted.failureThreshold
             THEN transitionTo(counted, StateOpen)
             ELSE counted
    ELSE IF c.state = StateHalfOpen
         THEN LET counted == [c EXCEPT !.successCount = @ + 1]
              IN  IF counted.successCount >= counted.successThreshold
                  THEN transitionTo(counted, StateClosed)
                  ELSE counted
         ELSE [c EXCEPT !.failureCount = 0]

\* CircuitBreaker.Execute after fn returned err, with cb.mu held again
CircuitBreaker_Complete(c, err) ==
    IF ~err.isNil
    THEN LET counted == [c EXCEPT !.failureCount = @ + 1]
         IN  IF counted.state = StateHalfOpen
                \/ counted.failureCount >= counted.failureThreshold
             THEN transitionTo(counted, StateOpen)
             ELSE counted
    ELSE IF c.state = StateHalfOpen
         THEN LET counted == [c EXCEPT !.successCount = @ + 1]
              IN  IF counted.successCount >= counted.successThreshold
                  THEN transitionTo(counted, StateClosed)
                  ELSE counted
         ELSE [c EXCEPT !.failureCount = 0]

\* CircuitBreaker.Reset()
CircuitBreaker_Reset(c) == transitionTo(c, StateClosed)

(***************************************************************************)
(* Bounds and the inputs the specifications draw from                      *)
(***************************************************************************)
MaxPolicies == 2
MaxLen == 3

\* a call's arguments; now: the wall clock (UTC weekday and hour) during the call
NoRequest ==
    [skill |-> Skill(<<>>, RiskLow, FALSE), params |-> NilParams, env |-> <<>>,
     now |-> [weekday |-> 0, hour |-> 0]]

Request(skill, params, env, now) == [skill |-> skill, params |-> params, env |-> env, now |-> now]

\* Monday 10:00 UTC and Saturday 10:00 UTC
Weekday10 == [weekday |-> 1, hour |-> 10]
Saturday10 == [weekday |-> Saturday, hour |-> 10]

\* inputs of the safety layer
SafetySkills ==
    {Skill(n, r, c) : n \in {n_aws_ec2_list, n_aws_ec2_scale, n_k8s_deploy, n_terraform_apply,
                              n_aws_s3_sync},
                      r \in RiskLevels, c \in BOOLEAN}
SafetyParams ==
    ParamMaps(("desired_capacity" :> {IntVal(7), StrVal("7")})
              @@ ("resources_count" :> {IntVal(60)})
              @@ ("instance_id" :> {StrVal("i-1")}))
SafetyEnvs == {e_production, e_prod, e_prd, e_PROD, e_Prd, e_Production, e_staging, e_dev}
SafetyRequests ==
    {Request(s, p, e, Weekday10) : s \in SafetySkills, p \in SafetyParams, e \in SafetyEnvs}

\* inputs of the policy engine
testPatternPolicy == Policy("test_pattern", EnforcementDeny, "CRITICAL", <<p_aws_s3>>, <<>>, "always")
prodNoticePolicy ==
    Policy("prod_notice", EnforcementWarn, "INFO", <<>>, <<e_production, e_prod>>, "always")
faultyPolicy == Policy("faulty", EnforcementDeny, "CRITICAL", <<p_aws_ec2>>, <<>>, "panic")
PolicyPool ==
    {noPublicS3Policy, requireTagsPolicy, testPatternPolicy, prodNoticePolicy, faultyPolicy}
PolicySkills ==
    {Skill(n, r, FALSE) : n \in {n_aws_s3_sync, n_aws_ec2_list, n_k8s_deploy},
                          r \in {RiskMedium, RiskCritical}}
PolicyParams ==
    ParamMaps(("acl" :> {StrVal("public-read"), StrVal("private")})
              @@ ("tags" :> {MapVal(requiredTags), StrVal("team=a")}))
PolicyRequests ==
    {Request(s, p, e, t) : s \in PolicySkills, p \in PolicyParams,
                           e \in {e_staging, e_production, e_PROD},
                           t \in {Weekday10, Saturday10}}

\* inputs of pattern matching: every string of at most MaxLen characters
Alphabet == {"a", "b", ".", "*"}
Strs == UNION {[1..n -> Alphabet] : n \in 0..MaxLen}
MatchPolicies ==
    {Policy("test_pattern", EnforcementDeny, "CRITICAL", <<p>>, <<>>, "always")
        : p \in Strs \cup {p_aws_s3}}
    \cup {Policy("test_env", EnforcementDeny, "CRITICAL", a, e, "always")
             : a \in {<<>>, <<p_aws_s3, p_aws_ec2>>},
               e \in {<<e_production, e_prod>>, <<e_dev, e_Prd>>}}
MatchRequests ==
    {Request(Skill(n, RiskLow, FALSE), NilParams, e_staging, Weekday10) : n \in Strs}
    \cup {Request(Skill(n, RiskLow, FALSE), NilParams, e, Weekday10)
             : n \in {n_aws_s3_sync, n_aws_ec2_list, n_k8s_deploy}, e \in SafetyEnvs}

\* inputs of the execution path
GateSkills ==
    {Skill(n, r, c) : n \in {n_k8s_deploy, n_aws_s3_sync, n_aws_ec2_list, n_aws_ec2_scale},
                      r \in RiskLevels, c \in BOOLEAN}
GateParams ==
    ParamMaps(("_confirmed" :> {BoolVal(TRUE), BoolVal(FALSE), StrVal("true")})
              @@ ("_force" :> {BoolVal(TRUE), StrVal("true")})
              @@ ("acl" :> {StrVal("public-read")})
              @@ ("namespace" :> {StrVal("default")}))
GateRequests ==
    {Request(s, p, e, Weekday10) : s \in GateSkills, p \in GateParams,
                                   e \in {e_staging, e_PROD}}

\* inputs of the access-control engine: two usernames that get registered, one
\* that never is; the four roles and one without a permission entry
Usernames == {"ops1", "viewer1"}
Callers == Usernames \cup {"nonexistent"}
Roles == {RoleViewer, RoleOperator, RoleAdmin, RoleSuperAdmin, "guest"}
AuthSkills == {Skill(n, r, TRUE) : n \in {n_k8s_deploy, n_aws_ec2_scale}, r \in RiskLevels}
AuthParams == ParamMaps("_confirmed" :> {BoolVal(TRUE)})
AuthEnvs ==
    {e_staging, e_STAGING, e_dev, e_qa, e_production, e_Production, e_prod, e_PROD, e_prd,
     e_Prd}
AuthRequests ==
    {Request(s, p, e, Weekday10) : s \in AuthSkills, p \in AuthParams, e \in AuthEnvs}


\* inputs of ParseRiskLevel and String: the four levels and the next integer; the
\* level names in several spellings and other texts
PrintableLevels == RiskLevels \cup {RiskCritical + 1}
RiskTexts ==
    {"LOW", "MEDIUM", "HIGH", "CRITICAL", "UNKNOWN", "low", "Low", "medium", "High",
     "critical", "", "HIGH "}

\* inputs of the guardrails on blast radius and peer review: catalogued skills and
\* other names of the estimate's rows; counts as integers and as the text a
\* command line gives; a weekday morning, a weekday night and a Saturday
Weekday22 == [weekday |-> 1, hour |-> 22]
GuardrailSkills ==
    Catalog \cup {Skill(n_helm_upgrade, RiskHigh, TRUE), Skill(n_argocd_sync, RiskMedium, TRUE),
                  Skill(n_aws_secrets_rotate, RiskCritical, TRUE)}
GuardrailParams ==
    ParamMaps(("desired_capacity" :> {IntVal(7), IntVal(51), StrVal("7")})
              @@ ("resources_count" :> {IntVal(60)})
              @@ ("_resource_count" :> {IntVal(50), IntVal(51), StrVal("100")})
              @@ ("_peer_reviewer" :> {StrVal("bob")}))
GuardrailRequests ==
    {Request(s, p, e, t) : s \in GuardrailSkills, p \in GuardrailParams,
                           e \in {e_staging, e_production},
                           t \in {Weekday10, Weekday22, Saturday10}}

\* inputs of WithRetry: policies and what fn returns
MaxRetriesBound == 2
RetryPolicies ==
    {RetryPolicy(n, errs) : n \in (0 - 1)..MaxRetriesBound,
                            errs \in {<<>>, <<m_timeout>>, DefaultRetryPolicy.RetryableErrs}}
    \cup {DefaultRetryPolicy}
FnErrors == {NilErr, Err(m_timeout), Err(m_Request_Timeout), Err(m_permission_denied)}

\* inputs of the circuit breaker: thresholds, the reset timeout in clock ticks, how
\* many calls are followed, the goroutines that call Execute
MaxThreshold == 2
ResetTimeout == 1
MaxCalls == 4
BreakerCallers == {"c1", "c2"}
BreakerErrors == {NilErr, Err(m_fatal)}

\* inputs of the built-in policies: security group rules, the clock through a whole
\* week, production environments in every spelling
At(weekday, hour, minute) == [weekday |-> weekday, hour |-> hour, minute |-> minute]
Monday10 == At(1, 10, 0)
Clock == {At(d, h, m) : d \in 0..6, h \in 0..23, m \in {0, 30}}
SGParams ==
    ParamMaps(("cidr" :> {StrVal("0.0.0.0/0"), StrVal("::/0"), StrVal("10.0.0.0/8")})
              @@ ("port" :> {StrVal("22"), IntVal(3389), StrVal("3306"), IntVal(5432),
                             StrVal("80"), IntVal(443)}))
SGRequests ==
    {Request(Skill(n_aws_sg_audit, RiskLow, FALSE), p, e, Monday10) :
        p \in SGParams, e \in {e_staging, e_production}}
WindowRequests ==
    {Request(s, NilParams, e, t) :
        s \in {Skill(n_k8s_deploy, RiskHigh, TRUE), Skill(n_helm_upgrade, RiskHigh, TRUE)},
        e \in {e_production, e_prod}, t \in Clock}
ScopeParams ==
    ParamMaps(("_peer_reviewer" :> {StrVal("bob")}) @@ ("_iac_managed" :> {BoolVal(TRUE)}))
ScopeRequests ==
    {Request(s, p, e, t) :
        s \in {Skill(n_terraform_apply, RiskCritical, TRUE), Skill(n_k8s_deploy, RiskHigh, TRUE),
               Skill(n_aws_ec2_scale, RiskMedium, TRUE)},
        p \in ScopeParams, e \in SafetyEnvs, t \in {Monday10, At(1, 22, 0)}}
BuiltinRequests == SGRequests \cup WindowRequests \cup ScopeRequests

(***************************************************************************)
(* State                                                                   *)
(***************************************************************************)
Idle ==
    /\ op = "idle"
    /\ req = NoRequest
    /\ report = NoReport
    /\ policyResult = EmptyResult
    /\ result = NoExecution

\* a caller has a request ready
Submit(r) ==
    /\ op = "idle"
    /\ op' = "request"
    /\ req' = r
    /\ UNCHANGED <<policies, enforcementMode, dryRun, safetyLayer, report, policyResult, result>>
    /\ UNCHANGED <<rbacVars, raceVars, riskVars, resVars>>

\* the caller has taken what the operation returned
Return ==
    /\ op \notin {"idle", "request"}
    /\ op' = "idle"
    /\ req' = NoRequest
    /\ report' = NoReport
    /\ policyResult' = EmptyResult
    /\ result' = NoExecution
    /\ UNCHANGED <<policies, enforcementMode, dryRun, safetyLayer>>
    /\ UNCHANGED <<rbacVars, raceVars, riskVars, resVars>>

\* safety.Layer.Evaluate(skill, params, env)
SafetyEvaluate ==
    /\ op = "request"
    /\ op' = "safety.Evaluate"
    /\ report' = Layer_Evaluate(req.skill, req.params, req.env)
    /\ UNCHANGED <<policies, enforcementMode, dryRun, safetyLayer, req, policyResult, result>>
    /\ UNCHANGED <<rbacVars, raceVars, riskVars, resVars>>

\* policy.Engine.Register(policy)
Register(policy) ==
    /\ op = "idle"
    /\ Len(policies) < MaxPolicies
    /\ policies' = Append(policies, policy)
    /\ UNCHANGED <<enforcementMode, dryRun, safetyLayer, op, req, report, policyResult, result>>
    /\ UNCHANGED <<rbacVars, raceVars, riskVars, resVars>>

\* policy.Engine.LoadBuiltins()
LoadBuiltins ==
    /\ op = "idle"
    /\ Len(policies) < MaxPolicies
    /\ policies' = policies \o BuiltinPolicies
    /\ UNCHANGED <<enforcementMode, dryRun, safetyLayer, op, req, report, policyResult, result>>
    /\ UNCHANGED <<rbacVars, raceVars, riskVars, resVars>>

\* policy.Engine.Evaluate(skill, params, env)
PolicyEvaluate ==
    /\ op = "request"
    /\ op' = "policy.Evaluate"
    /\ policyResult' = Engine_Evaluate(policies, enforcementMode, req.skill, req.params,
                                       req.env, req.now)
    /\ UNCHANGED <<policies, enforcementMode, dryRun, safetyLayer, req, report, result>>
    /\ UNCHANGED <<rbacVars, raceVars, riskVars, resVars>>

\* cmd/infracore handleRun: `infracore run <skill_name> [--param key=value ...] [--env=<env>]`.
\* It ends Denied when the policies do not pass, and otherwise after the safety
\* evaluation, with StatusDryRun in the audit log; it starts no command.
HandleRun ==
    /\ op = "request"
    /\ \A k \in DOMAIN req.params : req.params[k].t = "string"    \* parseParams
    /\ op' = "handleRun"
    /\ IF ~Registered(req.skill.Name)
       THEN /\ result' = ExecutionResult("not_found", "skill not found", <<>>, <<>>, FALSE)
            /\ UNCHANGED <<policyResult, report>>
       ELSE LET skill == Registry_Get(req.skill.Name)
                pr == Engine_Evaluate(policies, enforcementMode, skill, req.params, req.env,
                                      req.now)
            IN  /\ policyResult' = pr
                /\ IF pr.panicked
                   THEN /\ result' = ExecutionResult("panic", "", <<>>, <<>>, FALSE)
                        /\ UNCHANGED report
                   ELSE IF ~pr.Passed
                   THEN /\ result' = ExecutionResult("denied", "", <<>>, <<>>, FALSE)
                        /\ UNCHANGED report
                   ELSE /\ report' = Layer_Evaluate(skill, req.params, req.env)
                        /\ result' = ExecutionResult(StatusDryRun, "evaluated in dry-run mode",
                                                     <<>>, <<>>, FALSE)
    /\ UNCHANGED <<policies, enforcementMode, dryRun, safetyLayer, req>>
    /\ UNCHANGED <<rbacVars, raceVars, riskVars, resVars>>

\* executor.CLIExecutor.Execute(ctx, skill, params, env)
Execute ==
    /\ op = "request"
    /\ op' = "Execute"
    /\ \E cmdOk \in BOOLEAN :
         result' = CLIExecutor_Execute(safetyLayer, dryRun, req.skill, req.params, req.env,
                                       cmdOk)
    /\ report' = IF safetyLayer
                 THEN Layer_Evaluate(req.skill, req.params, req.env)
                 ELSE NoReport
    /\ UNCHANGED <<policies, enforcementMode, dryRun, safetyLayer, req, policyResult>>
    /\ UNCHANGED <<rbacVars, raceVars, riskVars, resVars>>

\* rbac.NewEngine()
rbacNew ==
    /\ users = <<>>
    /\ rbacEnabled = TRUE

\* rbac.Engine.AddUser(username, role, teams)
AddUser(username, role) ==
    /\ op = "idle"
    /\ op' = "rbac.AddUser"
    /\ users' = Rbac_AddUser(users, username, role)
    /\ result' = [user |-> username, role |-> role]
    /\ UNCHANGED <<policies, enforcementMode, dryRun, safetyLayer, req, report,
                   policyResult, rbacEnabled, raceVars, riskVars, resVars>>

\* rbac.Engine.SetEnabled(enabled)
SetEnabled(enabled) ==
    /\ op = "idle"
    /\ rbacEnabled' = enabled
    /\ UNCHANGED <<policies, enforcementMode, dryRun, safetyLayer, op, req, report,
                   policyResult, result, users, raceVars, riskVars, resVars>>

\* rbac.Engine.CanExecute(username, skill, env)
CanExecute(username) ==
    /\ op = "request"
    /\ op' = "rbac.CanExecute"
    /\ result' = [user |-> username,
                  verdict |-> Rbac_CanExecute(users, rbacEnabled, username, req.skill,
                                              req.env)]
    /\ UNCHANGED <<policies, enforcementMode, dryRun, safetyLayer, req, report,
                   policyResult, rbacVars, raceVars, riskVars, resVars>>

\* rbac.Engine.CanApprove(username)
CanApprove(username) ==
    /\ op = "idle"
    /\ op' = "rbac.CanApprove"
    /\ result' = [user |-> username,
                  approve |-> Rbac_CanApprove(users, rbacEnabled, username)]
    /\ UNCHANGED <<policies, enforcementMode, dryRun, safetyLayer, req, report,
                   policyResult, rbacVars, raceVars, riskVars, resVars>>

gateVars == <<policies, enforcementMode, dryRun, safetyLayer, op, req, report,
              policyResult, result>>

\* no goroutine is inside a registry method
noGoroutines ==
    /\ pc = [g \in Goroutines |-> "idle"]
    /\ mu = [writer |-> FALSE, readers |-> {}]

\* a write method starts: Registry.Register takes r.mu.Lock() first; Engine.Register
\* and Engine.AddUser go straight to the slice or map
BeginWrite(g) ==
    /\ IsWriter(g)
    /\ pc[g] = "idle"
    /\ IF HasRWMutex(RegistryOf(g))
       THEN /\ ~mu.writer
            /\ mu.readers = {}
            /\ mu' = [mu EXCEPT !.writer = TRUE]
       ELSE UNCHANGED mu
    /\ pc' = [pc EXCEPT ![g] = "writing"]
    /\ UNCHANGED <<gateVars, rbacVars, riskVars, resVars>>

\* the write method returns (the deferred r.mu.Unlock() runs)
EndWrite(g) ==
    /\ pc[g] = "writing"
    /\ IF HasRWMutex(RegistryOf(g))
       THEN mu' = [mu EXCEPT !.writer = FALSE]
       ELSE UNCHANGED mu
    /\ pc' = [pc EXCEPT ![g] = "idle"]
    /\ UNCHANGED <<gateVars, rbacVars, riskVars, resVars>>

\* a read method starts: Registry.Get takes r.mu.RLock() first; Engine.Evaluate and
\* Engine.CanExecute go straight to the slice or map
BeginRead(g) ==
    /\ ~IsWriter(g)
    /\ pc[g] = "idle"
    /\ IF HasRWMutex(RegistryOf(g))
       THEN /\ ~mu.writer
            /\ mu' = [mu EXCEPT !.readers = @ \cup {g}]
       ELSE UNCHANGED mu
    /\ pc' = [pc EXCEPT ![g] = "reading"]
    /\ UNCHANGED <<gateVars, rbacVars, riskVars, resVars>>

\* the read method returns (the deferred r.mu.RUnlock() runs)
EndRead(g) ==
    /\ pc[g] = "reading"
    /\ IF HasRWMutex(RegistryOf(g))
       THEN mu' = [mu EXCEPT !.readers = @ \ {g}]
       ELSE UNCHANGED mu
    /\ pc' = [pc EXCEPT ![g] = "idle"]
    /\ UNCHANGED <<gateVars, rbacVars, riskVars, resVars>>

\* no text has been printed or parsed
NoText == [s |-> "", of |-> <<>>]
noRiskText ==
    /\ riskText = NoText
    /\ riskParsed = [done |-> FALSE, text |-> NoText, level |-> RiskLow, err |-> ""]

\* RiskLevel(level).String()
StringOf(level) ==
    /\ riskText' = [s |-> RiskLevel_String(level), of |-> <<level>>]
    /\ UNCHANGED <<gateVars, rbacVars, raceVars, riskParsed, resVars>>

\* a text that comes from elsewhere (a config file, a flag)
TypeText(s) ==
    /\ riskText' = [s |-> s, of |-> <<>>]
    /\ UNCHANGED <<gateVars, rbacVars, raceVars, riskParsed, resVars>>

\* core.ParseRiskLevel(s)
Parse ==
    /\ riskText # NoText
    /\ LET p == ParseRiskLevel(riskText.s)
       IN  riskParsed' = [done |-> TRUE, text |-> riskText, level |-> p.level, err |-> p.err]
    /\ UNCHANGED <<gateVars, rbacVars, raceVars, riskText, resVars>>

\* no Execute call is inside fn
NoCall == [pc |-> "idle", from |-> StateClosed, expired |-> FALSE, admitted |-> StateClosed]
AllIdle == \A g \in BreakerCallers : cbCalls[g].pc = "idle"
InFlight == Cardinality({g \in BreakerCallers : cbCalls[g].pc = "fn"})

\* NewCircuitBreaker(name, failureThreshold, resetTimeout): lastFailureTime is the
\* zero time, which is longer ago than any timeout
breakerNew(failureThreshold) ==
    /\ cb = NewCircuitBreaker(failureThreshold)
    /\ elapsed = ResetTimeout + 1
    /\ cbCalls = [g \in BreakerCallers |-> NoCall]
    /\ cbLog = <<>>

noResilience ==
    /\ breakerNew(1)
    /\ retry = NoRetry

\* one finished call on the breaker.  from: cb.state when the call started; expired:
\* the reset timeout had passed since the last failure when it started; admitted: the
\* local `state` of Execute; to: cb.state when it returned; invoked: fn was called
Call(kind, from, expired, admitted, to, invoked) ==
    [kind |-> kind, from |-> from, expired |-> expired, admitted |-> admitted, to |-> to,
     invoked |-> invoked]

\* time.Since(cb.lastFailureTime) > cb.resetTimeout
Expired == elapsed > ResetTimeout

\* the clock advances
Tick ==
    /\ elapsed <= ResetTimeout
    /\ elapsed' = elapsed + 1
    /\ UNCHANGED <<gateVars, rbacVars, raceVars, riskVars, cb, cbCalls, cbLog, retry>>

\* CircuitBreaker.Execute(fn) from its start to the call of fn, or to the return
\* of the rejection
ExecuteBegin(g) ==
    /\ cbCalls[g].pc = "idle"
    /\ Len(cbLog) + InFlight < MaxCalls
    /\ LET a == CircuitBreaker_Admit(cb, Expired)
       IN  /\ cb' = a.cb
           /\ IF a.admitted = "rejected"
              THEN /\ cbLog' = Append(cbLog, Call("rejected", cb.state, Expired,
                                                  "rejected", a.cb.state, FALSE))
                   /\ UNCHANGED cbCalls
              ELSE /\ cbCalls' = [cbCalls EXCEPT ![g] = [pc |-> "fn", from |-> cb.state,
                                                        expired |-> Expired,
                                                        admitted |-> a.admitted]]
                   /\ UNCHANGED cbLog
    /\ UNCHANGED <<gateVars, rbacVars, raceVars, riskVars, elapsed, retry>>

\* CircuitBreaker.Execute(fn) from the return of fn with err to its own return
ExecuteEnd(g, err) ==
    /\ cbCalls[g].pc = "fn"
    /\ cb' = CircuitBreaker_Complete(cb, err)
    /\ elapsed' = IF err.isNil THEN elapsed ELSE 0       \* cb.lastFailureTime = time.Now()
    /\ cbLog' = Append(cbLog, Call(IF err.isNil THEN "ok" ELSE "fail", cbCalls[g].from,
                                   cbCalls[g].expired, cbCalls[g].admitted, cb'.state,
                                   TRUE))
    /\ cbCalls' = [cbCalls EXCEPT ![g] = NoCall]
    /\ UNCHANGED <<gateVars, rbacVars, raceVars, riskVars, retry>>

\* CircuitBreaker.Reset()
Reset ==
    /\ Len(cbLog) + InFlight < MaxCalls
    /\ cb' = CircuitBreaker_Reset(cb)
    /\ cbLog' = Append(cbLog, Call("reset", cb.state, Expired, cb.state, cb'.state, FALSE))
    /\ UNCHANGED <<gateVars, rbacVars, raceVars, riskVars, elapsed, cbCalls, retry>>

\* WithRetry(policy, fn) starts
WithRetryBegin(policy) ==
    /\ ~retry.running
    /\ ~retry.done
    /\ retry' = WithRetry_Enter(policy)
    /\ UNCHANGED <<gateVars, rbacVars, raceVars, riskVars, cb, elapsed, cbCalls, cbLog>>

\* WithRetry calls fn, which returns err
WithRetryAttempt(err) ==
    /\ retry.running
    /\ retry' = WithRetry_Attempt(retry, err)
    /\ UNCHANGED <<gateVars, rbacVars, raceVars, riskVars, cb, elapsed, cbCalls, cbLog>>

\* the caller has taken the RetryResult
WithRetryReturn ==
    /\ retry.done
    /\ retry' = NoRetry
    /\ UNCHANGED <<gateVars, rbacVars, raceVars, riskVars, cb, elapsed, cbCalls, cbLog>>

(***************************************************************************)
(* Specifications                                                          *)
(***************************************************************************)
\* safety.NewLayer(): the layer has no state
SafetyInit ==
    /\ policies = <<>>
    /\ enforcementMode = EnforcementWarn
    /\ dryRun = FALSE
    /\ safetyLayer = TRUE
    /\ Idle
    /\ rbacNew /\ noGoroutines /\ noRiskText /\ noResilience

SafetyNext ==
    \/ \E r \in SafetyRequests : Submit(r)
    \/ SafetyEvaluate
    \/ Return

SafetySpec == SafetyInit /\ [][SafetyNext]_vars

\* policy.NewEngine(enforcementMode)
PolicyInit ==
    /\ policies = <<>>
    /\ enforcementMode \in {EnforcementWarn, EnforcementDeny}
    /\ dryRun = FALSE
    /\ safetyLayer = TRUE
    /\ Idle
    /\ rbacNew /\ noGoroutines /\ noRiskText /\ noResilience

PolicyNext ==
    \/ \E p \in PolicyPool : Register(p)
    \/ LoadBuiltins
    \/ \E r \in PolicyRequests : Submit(r)
    \/ PolicyEvaluate
    \/ Return

PolicySpec == PolicyInit /\ [][PolicyNext]_vars

\* an engine with one registered policy
MatchInit ==
    /\ policies \in {<<p>> : p \in MatchPolicies}
    /\ enforcementMode = EnforcementDeny
    /\ dryRun = FALSE
    /\ safetyLayer = TRUE
    /\ Idle
    /\ rbacNew /\ noGoroutines /\ noRiskText /\ noResilience

MatchNext ==
    \/ \E r \in MatchRequests : Submit(r)
    \/ PolicyEvaluate
    \/ Return

MatchSpec == MatchInit /\ [][MatchNext]_vars

\* main(): policy.NewEngine + LoadBuiltins, safety.NewLayer; executor.NewCLIExecutor
Init ==
    /\ policies = BuiltinPolicies
    /\ enforcementMode \in {EnforcementWarn, EnforcementDeny}
    /\ dryRun \in BOOLEAN
    /\ safetyLayer \in BOOLEAN
    /\ Idle
    /\ rbacNew /\ noGoroutines /\ noRiskText /\ noResilience

Next ==
    \/ \E r \in GateRequests : Submit(r)
    \/ HandleRun
    \/ Execute
    \/ Return

Spec == Init /\ [][Next]_vars

\* main(): the engines as main builds them, and an executor on the safety layer
AuthInit ==
    /\ policies = BuiltinPolicies
    /\ enforcementMode = EnforcementWarn
    /\ dryRun = FALSE
    /\ safetyLayer = TRUE
    /\ Idle
    /\ rbacNew /\ noGoroutines /\ noRiskText /\ noResilience

AuthNext ==
    \/ \E u \in Usernames, role \in Roles : AddUser(u, role)
    \/ \E b \in BOOLEAN : SetEnabled(b)
    \/ \E r \in AuthRequests : Submit(r)
    \/ \E u \in Callers : CanExecute(u)
    \/ \E u \in Callers : CanApprove(u)
    \/ HandleRun
    \/ Execute
    \/ Return

AuthSpec == AuthInit /\ [][AuthNext]_vars

\* goroutines calling the registries' methods at any time
RaceInit ==
    /\ policies = BuiltinPolicies
    /\ enforcementMode = EnforcementWarn
    /\ dryRun = FALSE
    /\ safetyLayer = TRUE
    /\ Idle
    /\ rbacNew /\ noGoroutines /\ noRiskText /\ noResilience

RaceNext ==
    \E g \in Goroutines : BeginWrite(g) \/ EndWrite(g) \/ BeginRead(g) \/ EndRead(g)

RaceSpec == RaceInit /\ [][RaceNext]_vars

\* printing and parsing risk levels
RiskInit ==
    /\ policies = <<>>
    /\ enforcementMode = EnforcementWarn
    /\ dryRun = FALSE
    /\ safetyLayer = TRUE
    /\ Idle
    /\ rbacNew /\ noGoroutines /\ noRiskText /\ noResilience

RiskNext ==
    \/ \E l \in PrintableLevels : StringOf(l)
    \/ \E s \in RiskTexts : TypeText(s)
    \/ Parse

RiskSpec == RiskInit /\ [][RiskNext]_vars

\* policy.NewEngine(enforcementMode), then LoadBuiltins; safety.NewLayer
GuardrailInit ==
    /\ policies = <<>>
    /\ enforcementMode \in {EnforcementWarn, EnforcementDeny}
    /\ dryRun = FALSE
    /\ safetyLayer = TRUE
    /\ Idle
    /\ rbacNew /\ noGoroutines /\ noRiskText /\ noResilience

GuardrailNext ==
    \/ LoadBuiltins
    \/ \E r \in GuardrailRequests : Submit(r)
    \/ PolicyEvaluate
    \/ SafetyEvaluate
    \/ HandleRun
    \/ Return

GuardrailSpec == GuardrailInit /\ [][GuardrailNext]_vars

\* a test holds a RetryPolicy and calls WithRetry; fn returns, and the loop goes on
RetryInit ==
    /\ policies = <<>>
    /\ enforcementMode = EnforcementWarn
    /\ dryRun = FALSE
    /\ safetyLayer = TRUE
    /\ Idle
    /\ rbacNew /\ noGoroutines /\ noRiskText /\ noResilience

RetryNext ==
    \/ \E policy \in RetryPolicies : WithRetryBegin(policy)
    \/ \E err \in FnErrors : WithRetryAttempt(err)
    \/ WithRetryReturn

RetrySpec ==
    RetryInit /\ [][RetryNext]_vars /\ WF_vars(\E err \in FnErrors : WithRetryAttempt(err))

\* NewCircuitBreaker(name, failureThreshold, resetTimeout)
BreakerInit ==
    /\ policies = <<>>
    /\ enforcementMode = EnforcementWarn
    /\ dryRun = FALSE
    /\ safetyLayer = TRUE
    /\ Idle
    /\ rbacNew /\ noGoroutines /\ noRiskText
    /\ \E t \in 1..MaxThreshold : breakerNew(t)
    /\ retry = NoRetry

\* one goroutine calls Execute and Reset, one call after the other
BreakerNext ==
    \/ ExecuteBegin("c1")
    \/ \E err \in BreakerErrors : ExecuteEnd("c1", err)
    \/ (AllIdle /\ Reset)
    \/ Tick

BreakerSpec == BreakerInit /\ [][BreakerNext]_vars

\* several goroutines call Execute on one breaker
SharedBreakerNext ==
    \/ \E g \in BreakerCallers : ExecuteBegin(g)
    \/ \E g \in BreakerCallers, err \in BreakerErrors : ExecuteEnd(g, err)
    \/ Reset
    \/ Tick

SharedBreakerSpec == BreakerInit /\ [][SharedBreakerNext]_vars

\* policy.NewEngine(enforcementMode), then LoadBuiltins; safety.NewLayer
BuiltinInit ==
    /\ policies = <<>>
    /\ enforcementMode \in {EnforcementWarn, EnforcementDeny}
    /\ dryRun = FALSE
    /\ safetyLayer = TRUE
    /\ Idle
    /\ rbacNew /\ noGoroutines /\ noRiskText /\ noResilience

BuiltinNext ==
    \/ LoadBuiltins
    \/ \E r \in BuiltinRequests : Submit(r)
    \/ PolicyEvaluate
    \/ SafetyEvaluate
    \/ Return

BuiltinSpec == BuiltinInit /\ [][BuiltinNext]_vars

(***************************************************************************)
(* Properties of the safety layer (SafetySpec)                             *)
(***************************************************************************)
\* a is b up to the case of its letters, character by character
SameIgnoringCase(a, b) ==
    /\ Len(a) = Len(b)
    /\ \A i \in 1..Len(a) :
         \/ a[i] = b[i]
         \/ \E j \in DOMAIN UpperLetters :
              {a[i], b[i]} = {UpperLetters[j], LowerLetters[j]}

NamesProduction(env) ==
    \E w \in {e_production, e_prod, e_prd} : SameIgnoringCase(env, w)

SafetyReturned == op = "safety.Evaluate"

\* C1: for every skill, parameter map and environment that is production, prod or prd
\* in any letter case, the report of Evaluate has RiskLevel >= High,
\* RequiresConfirmation = true and a non-empty EnvironmentWarning.
C1_ProductionEscalates ==
    (SafetyReturned /\ NamesProduction(req.env)) =>
        /\ report.RiskLevel >= RiskHigh
        /\ report.RequiresConfirmation
        /\ report.EnvironmentWarning # ""

\* a Low skill that asks for no confirmation, evaluated for "PROD"
C1_Witness ==
    /\ SafetyReturned
    /\ req.env = e_PROD
    /\ req.skill.RiskLevel = RiskLow
    /\ ~req.skill.RequiresConfirmation
    /\ report.RiskLevel = RiskHigh
    /\ report.RequiresConfirmation

\* C2: the report's RiskLevel is never lower than skill.RiskLevel: a Critical skill
\* stays Critical in production, and outside production the report's risk is the
\* skill's own.
C2_EscalationMonotonic ==
    SafetyReturned =>
        /\ report.RiskLevel >= req.skill.RiskLevel
        /\ (req.skill.RiskLevel = RiskCritical => report.RiskLevel = RiskCritical)
        /\ (~NamesProduction(req.env) => report.RiskLevel = req.skill.RiskLevel)

\* a Critical skill evaluated for production
C2_Witness ==
    /\ SafetyReturned
    /\ req.env = e_production
    /\ req.skill.RiskLevel = RiskCritical
    /\ report.RiskLevel = RiskCritical

(***************************************************************************)
(* Properties of the policy engine (PolicySpec, MatchSpec)                 *)
(***************************************************************************)
\* Evaluate returned a result to its caller
PolicyReturned == op = "policy.Evaluate" /\ ~policyResult.panicked

\* the policy applies to the request and its check reports a violation
Triggered(policy) ==
    /\ policyApplies(policy, req.skill, req.env)
    /\ CheckFunc(policy, req.skill, req.params, req.env, req.now).violated

RECURSIVE TriggeredNames(_)
TriggeredNames(ps) ==
    IF ps = <<>> THEN <<>>
    ELSE (IF Triggered(Head(ps)) THEN <<Head(ps).Name>> ELSE <<>>) \o TriggeredNames(Tail(ps))

PolicyNames(records) == [i \in DOMAIN records |-> records[i].PolicyName]

InViolations(policy) ==
    \E i \in DOMAIN policyResult.Violations : policyResult.Violations[i].PolicyName = policy.Name
InWarnings(policy) ==
    \E i \in DOMAIN policyResult.Warnings : policyResult.Warnings[i].PolicyName = policy.Name

RECURSIVE SharedOut(_, _, _)
SharedOut(t, v, w) ==
    IF t = <<>> THEN v = <<>> /\ w = <<>>
    ELSE \/ v # <<>> /\ Head(v) = Head(t) /\ SharedOut(Tail(t), Tail(v), w)
         \/ w # <<>> /\ Head(w) = Head(t) /\ SharedOut(Tail(t), v, Tail(w))

\* C6: Evaluate never short-circuits: every registered policy that applies and
\* whose check reports a violation contributes exactly one record, in registration
\* order, to exactly one of Violations and Warnings, also after an earlier deny;
\* and Denied = (Violations non-empty) = not Passed.
C6_NoShortCircuit ==
    PolicyReturned =>
        /\ SharedOut(TriggeredNames(policies), PolicyNames(policyResult.Violations),
                     PolicyNames(policyResult.Warnings))
        /\ policyResult.Denied = (policyResult.Violations # <<>>)
        /\ policyResult.Denied = ~policyResult.Passed

\* two denies in one result, the second from a policy registered after the first
C6_Witness ==
    /\ PolicyReturned
    /\ Len(policies) = 2
    /\ PolicyNames(policyResult.Violations) = <<policies[1].Name, policies[2].Name>>
    /\ policies[1].Name # policies[2].Name

\* name starts with the first n characters of pattern
StartsWithFirst(name, pattern, n) ==
    /\ Len(name) >= n
    /\ \A i \in 1..n : name[i] = pattern[i]

\* the pattern forms of C7: `*`, `prefix.*`, `prefix*`, and the exact name
PatternMatches(name, pattern) ==
    LET n == Len(pattern)
    IN  CASE pattern = <<"*">> -> TRUE
          [] n >= 2 /\ pattern[n] = "*" /\ pattern[n - 1] = "." /\ pattern # <<"*">> ->
               StartsWithFirst(name, pattern, n - 1)      \* `prefix.`
          [] n >= 1 /\ pattern[n] = "*" /\ ~(n >= 2 /\ pattern[n - 1] = ".")
             /\ pattern # <<"*">> ->
               StartsWithFirst(name, pattern, n - 1)      \* `prefix`
          [] OTHER -> name = pattern

AppliesAsClaimed(policy, name, env) ==
    /\ \/ policy.AppliesTo = <<>>
       \/ \E i \in DOMAIN policy.AppliesTo : PatternMatches(name, policy.AppliesTo[i])
    /\ \/ policy.Environments = <<>>
       \/ \E i \in DOMAIN policy.Environments : SameIgnoringCase(policy.Environments[i], env)

\* C7: a policy is evaluated for (skill, env) exactly when AppliesTo is empty or one
\* of its patterns matches skill.Name, and Environments is empty or contains env
\* whatever the case of its letters; `aws.s3.*` matches aws.s3.sync and not
\* aws.ec2.list.  The engine holds one policy, whose check always reports a
\* violation, so the policy was evaluated exactly when the result has a record.
C7_PolicyAppliesAsClaimed ==
    PolicyReturned =>
        /\ (policyResult.Violations # <<>>)
             = AppliesAsClaimed(policies[1], req.skill.Name, req.env)
        /\ (policies[1].AppliesTo = <<p_aws_s3>> /\ req.skill.Name = n_aws_s3_sync)
             => policyResult.Violations # <<>>
        /\ (policies[1].AppliesTo = <<p_aws_s3>> /\ req.skill.Name = n_aws_ec2_list)
             => policyResult.Violations = <<>>

\* a `prefix.*` pattern evaluated for a name that starts with prefix and a dot
C7_Witness ==
    /\ PolicyReturned
    /\ policies[1].AppliesTo = << <<"a", ".", "*">> >>
    /\ req.skill.Name = <<"a", ".", "b">>
    /\ policyResult.Violations # <<>>

\* C8: a CheckFunc that faults is recovered inside Evaluate and counts as not
\* violated: Evaluate returns a result and the fault never reaches the caller.
C8_FaultRecovered ==
    op = "policy.Evaluate" => ~policyResult.panicked

(***************************************************************************)
(* Properties of the execution path (Spec)                                 *)
(***************************************************************************)
\* the policy verdict for the request as the operation saw the skill
VerdictFor(r) ==
    Engine_Evaluate(policies, enforcementMode,
                    IF op = "handleRun" THEN Registry_Get(r.skill.Name) ELSE r.skill,
                    r.params, r.env, r.now)

Handled ==
    \/ op = "Execute"
    \/ op = "handleRun" /\ Registered(req.skill.Name)

\* C3: for every execution request the policies are evaluated first, and the
\* command of a request they deny is never executed.
C3_DeniedNeverExecutes ==
    (Handled /\ VerdictFor(req).Denied) => ~result.ran

ConfirmedTrue(params) ==
    "_confirmed" \in DOMAIN params /\ params["_confirmed"] = BoolVal(TRUE)
ForcedTrue(params) ==
    "_force" \in DOMAIN params /\ params["_force"] = BoolVal(TRUE)

\* Execute ran with a safety layer, so that the request has a SafetyReport
Executed == op = "Execute" /\ safetyLayer

\* C9: whenever the request's SafetyReport has RequiresConfirmation = true and the
\* parameters do not hold `_confirmed` with the boolean true (absent, false, or the
\* string "true"), Execute ends pending with the report's ConfirmationPrompt and
\* runs no command; the boolean `_confirmed` = true passes this step at every risk
\* level.
C9_ConfirmationGate ==
    Executed =>
        /\ (report.RequiresConfirmation /\ ~ConfirmedTrue(req.params)) =>
             /\ result.Status = StatusPending
             /\ result.Message[2] = report.ConfirmationPrompt
             /\ ~result.ran
        /\ ConfirmedTrue(req.params) => result.Status # StatusPending

\* `_confirmed` is the string "true": the request is parked with a prompt to type
C9_Witness ==
    /\ Executed
    /\ "_confirmed" \in DOMAIN req.params
    /\ req.params["_confirmed"] = StrVal("true")
    /\ report.RiskLevel = RiskCritical
    /\ result.Status = StatusPending
    /\ result.Message[2] # <<>>

\* C10: a request past the confirmation step ends DryRun, with the interpolated
\* command returned and not executed, exactly when dry-run mode is set or
\* DryRunRecommended is true and `_force` = true is absent; otherwise the command is
\* executed.
C10_DryRunDecision ==
    (Executed /\ result.Status # StatusPending) =>
        IF dryRun \/ (report.DryRunRecommended /\ ~ForcedTrue(req.params))
        THEN /\ result.Status = StatusDryRun
             /\ ~result.ran
             /\ result.Command = interpolateCommand(req.skill.Command, req.params)
        ELSE /\ result.Status \in {StatusSuccess, StatusFailed}
             /\ result.ran

(***************************************************************************)
(* Properties of access control in the execution path (AuthSpec)           *)
(***************************************************************************)
\* the user is registered and CanExecute refuses the request for them
Refused(u) ==
    /\ u \in DOMAIN users
    /\ ~Rbac_CanExecute(users, rbacEnabled, u, req.skill, req.env).allowed

\* C11: with RBAC enabled, the command of a request is not executed for a
\* registered caller whom CanExecute refuses: the gate asks CanExecute before the
\* confirmation step and stops on a false verdict.
C11_RefusedNeverExecutes ==
    (op = "Execute" /\ rbacEnabled) =>
        \A u \in Usernames : Refused(u) => ~result.ran

\* the permission entry of a role, as a table of sets
RoleOf(u) == users[u]
HasEntry(role) == role \in {RoleViewer, RoleOperator, RoleAdmin, RoleSuperAdmin}
Range(f) == {f[i] : i \in DOMAIN f}

AllowedAsClaimed(u, skill, env) ==
    \/ ~rbacEnabled
    \/ /\ u \in DOMAIN users
       /\ HasEntry(RoleOf(u))
       /\ LET perm == loadDefaultPermissions[RoleOf(u)]
          IN  /\ skill.RiskLevel \in Range(perm.AllowedRiskLevels)
              /\ \/ perm.AllowedEnvironments = <<>>
                 \/ \E e \in Range(perm.AllowedEnvironments) : SameIgnoringCase(e, env)
              /\ \A d \in Range(perm.DenySkillPatterns) : ~PatternMatches(skill.Name, d)

CanExecuteReturned == op = "rbac.CanExecute"

\* C13: CanExecute allows exactly when RBAC is disabled, or the user is registered,
\* the role has a permission entry, the skill's risk is in AllowedRiskLevels,
\* AllowedEnvironments is empty or holds env in some letter case, and no deny
\* pattern matches the skill name; the reason is empty exactly when it allows.
C13_CanExecuteAsClaimed ==
    CanExecuteReturned =>
        /\ result.verdict.allowed = AllowedAsClaimed(result.user, req.skill, req.env)
        /\ (result.verdict.reason = "") = result.verdict.allowed

\* a registered user is allowed in an environment written in another letter case
C13_Witness ==
    /\ CanExecuteReturned
    /\ rbacEnabled
    /\ result.user \in DOMAIN users
    /\ req.env = e_STAGING
    /\ result.verdict.allowed

\* C14: on an enabled engine AddUser leaves the username with the role just given,
\* and a registered user's verdicts follow the default table of that role: Viewer
\* is refused from Medium up and in production; Operator is allowed Low and Medium
\* in staging, dev and qa and refused in production; Admin is allowed Low to High
\* in production and refused Critical; SuperAdmin is allowed Critical in
\* production; CanApprove holds only for Admin and SuperAdmin.
C14_DefaultRoleTable ==
    /\ op = "rbac.AddUser" => users[result.user] = result.role
    /\ (CanExecuteReturned /\ rbacEnabled /\ result.user \in DOMAIN users) =>
         LET role == RoleOf(result.user)
             risk == req.skill.RiskLevel
             ok == result.verdict.allowed
         IN  /\ role = RoleViewer =>
                  ((risk >= RiskMedium \/ req.env = e_production) => ~ok)
             /\ role = RoleOperator =>
                  /\ (risk \in {RiskLow, RiskMedium} /\ req.env \in {e_staging, e_dev, e_qa})
                       => ok
                  /\ req.env = e_production => ~ok
             /\ (role = RoleAdmin /\ req.env = e_production) => (ok <=> risk <= RiskHigh)
             /\ (role = RoleSuperAdmin /\ req.env = e_production /\ risk = RiskCritical)
                  => ok
    /\ (op = "rbac.CanApprove" /\ rbacEnabled) =>
         (result.approve <=>
            /\ result.user \in DOMAIN users
            /\ RoleOf(result.user) \in {RoleAdmin, RoleSuperAdmin})

\* both usernames are registered, and the one that is Admin is refused a Critical
\* skill in production
C14_Witness ==
    /\ CanExecuteReturned
    /\ rbacEnabled
    /\ DOMAIN users = Usernames
    /\ result.user \in DOMAIN users
    /\ RoleOf(result.user) = RoleAdmin
    /\ req.env = e_production
    /\ req.skill.RiskLevel = RiskCritical
    /\ ~result.verdict.allowed

\* the request of the scenario: the catalogued k8s.deploy in staging, not confirmed,
\* under a Warn engine, with an Operator registered
OperatorDeploysToStaging ==
    /\ op = "Execute"
    /\ req.skill = Registry_Get(n_k8s_deploy)
    /\ req.skill.RiskLevel = RiskHigh
    /\ req.env = e_staging
    /\ ~Has(req.params, "_confirmed")
    /\ enforcementMode = EnforcementWarn
    /\ rbacEnabled
    /\ \E u \in DOMAIN users : RoleOf(u) = RoleOperator

AtReportRisk(skill) == [skill EXCEPT !.RiskLevel = report.RiskLevel]

\* C12: once the safety layer has raised the risk of a production request, the
\* dry-run decision that follows is the one the executor's rule gives at the
\* report's risk level, never the one it gives at the skill's lower level.
C12_DryRunDecidesAtReportRisk ==
    (Executed /\ result.Status # StatusPending /\ ~dryRun) =>
        (CLIExecutor_shouldDryRun(AtReportRisk(req.skill)) => result.Status = StatusDryRun)

(***************************************************************************)
(* Properties of the built-in guardrails and the blast radius              *)
(* (GuardrailSpec)                                                         *)
(***************************************************************************)
\* terraform.apply as catalogued, in production, with no `_peer_reviewer`, given to
\* a Deny engine holding the built-in policies
UnreviewedApplyInProduction ==
    /\ op \in {"policy.Evaluate", "handleRun"}
    /\ policies = BuiltinPolicies
    /\ enforcementMode = EnforcementDeny
    /\ req.skill = Registry_Get(n_terraform_apply)
    /\ req.skill.RiskLevel = RiskCritical
    /\ req.env = e_production
    /\ ~Has(req.params, "_peer_reviewer")

\* C16: terraform.apply (Critical) in production without `_peer_reviewer` under
\* EnforcementMode = Deny is Denied, with require_peer_review among the violations,
\* whatever the time of the call; the run command stops there.
C16_UnreviewedApplyDenied ==
    UnreviewedApplyInProduction =>
        /\ policyResult.Denied
        /\ ~policyResult.Passed
        /\ "require_peer_review" \in Range(PolicyNames(policyResult.Violations))
        /\ op = "handleRun" => (result.Status = "denied" /\ report = NoReport)

\* the run command refused it on a Saturday
C16_Witness ==
    /\ UnreviewedApplyInProduction
    /\ op = "handleRun"
    /\ req.now = Saturday10
    /\ result.Status = "denied"

\* the number a parameter gives: an integer, or the digit a command line passes as text
DigitValue ==
    ("0" :> 0) @@ ("1" :> 1) @@ ("2" :> 2) @@ ("3" :> 3) @@ ("4" :> 4) @@ ("5" :> 5)
    @@ ("6" :> 6) @@ ("7" :> 7) @@ ("8" :> 8) @@ ("9" :> 9)
NumberOf(val) == IF val.t = "int" THEN val.i ELSE DigitValue[val.s]

ExplicitOr(params, key, fallback) ==
    IF Has(params, key) THEN NumberOf(params[key]) ELSE fallback

\* the table of the blast radius, first matching row first
BlastRadiusAsClaimed(name, params) ==
    IF \E k \in {k_list, k_audit, k_query, k_report, k_status, k_snapshot} : Contains(name, k)
    THEN 0
    ELSE IF Contains(name, k_deploy) \/ Contains(name, k_upgrade) THEN 1
    ELSE IF Contains(name, k_scale) THEN ExplicitOr(params, "desired_capacity", 1)
    ELSE IF Contains(name, n_terraform_apply) THEN ExplicitOr(params, "resources_count", 5)
    ELSE IF Contains(name, k_sync) \/ Contains(name, k_migrate) THEN 10
    ELSE 1

\* C17: the report's BlastRadius follows the table: 0 for read-only names, else 1
\* for deploy and upgrade, else the explicit desired_capacity for scale (1 when
\* absent), else the explicit resources_count for terraform.apply (5 when absent),
\* else 10 for sync and migrate, else 1.
C17_BlastRadiusTable ==
    SafetyReturned =>
        report.BlastRadius = BlastRadiusAsClaimed(req.skill.Name, req.params)

\* the names of the policies a result cites, in Violations or in Warnings
Cited(res) == Range(PolicyNames(res.Violations)) \cup Range(PolicyNames(res.Warnings))

\* C18: with the built-in rules under EnforcementMode = Deny, a request whose blast
\* radius, as the safety layer estimates it for the same skill and parameters, is
\* above 50 is Denied citing max_blast_radius, and one of at most 50 is not cited
\* by that rule.
C18_BlastRadiusAbove50Denied ==
    (PolicyReturned /\ policies = BuiltinPolicies /\ enforcementMode = EnforcementDeny) =>
        IF estimateBlastRadius(req.skill, req.params) > 50
        THEN /\ policyResult.Denied
             /\ "max_blast_radius" \in Range(PolicyNames(policyResult.Violations))
        ELSE "max_blast_radius" \notin Cited(policyResult)

(***************************************************************************)
(* Properties of the registries under concurrent calls (RaceSpec)          *)
(***************************************************************************)
Writing(registry) == \E g \in Goroutines : RegistryOf(g) = registry /\ pc[g] = "writing"
Reading(registry) == \E g \in Goroutines : RegistryOf(g) = registry /\ pc[g] = "reading"

\* the registry that has the lock: reads exclude the write, and share with each other
SkillRegistryExcludes == ~(Writing("skills") /\ Reading("skills"))

\* C19: in every interleaving of AddUser with CanExecute, of policy Register with
\* Evaluate, and of skill Register with Get, no read of a registry happens while a
\* write to that registry is in progress.
C19_NoReadDuringWrite ==
    \A registry \in Registries : ~(Writing(registry) /\ Reading(registry))

(***************************************************************************)
(* Properties of risk level texts (RiskSpec)                               *)
(***************************************************************************)
\* the four level names, as String prints them
LevelNames == {RiskLevel_String(l) : l \in RiskLevels}

PrintedFrom(text) == text.of[1]

\* C20: ParseRiskLevel gives back the level for the text String printed from each
\* of Low, Medium, High and Critical, and returns an error for every text that is
\* not one of the four level names.
C20_RoundTrip ==
    riskParsed.done =>
        /\ (riskParsed.text.of # <<>> /\ PrintedFrom(riskParsed.text) \in RiskLevels) =>
             /\ riskParsed.err = ""
             /\ riskParsed.level = PrintedFrom(riskParsed.text)
        /\ riskParsed.text.s \notin LevelNames => riskParsed.err # ""

\* Critical was printed and parsed back
C20_Witness ==
    /\ riskParsed.done
    /\ riskParsed.text.of = <<RiskCritical>>
    /\ riskParsed.level = RiskCritical
    /\ riskParsed.err = ""

(***************************************************************************)
(* Properties of the circuit breaker called from one goroutine             *)
(* (BreakerSpec)                                                           *)
(***************************************************************************)
\* the Execute calls of the log, without the Reset calls
ExecuteLog == SelectSeq(cbLog, LAMBDA c : c.kind # "reset")

\* the n entries of log that end at i are failed Execute calls, the first of them
\* started with the breaker CLOSED
FailedRun(log, i, n) ==
    /\ i >= n
    /\ \A j \in (i - n + 1)..i : log[j].kind = "fail"
    /\ log[i - n + 1].from = StateClosed

\* an Execute call that moved the breaker from CLOSED to OPEN
Tripped(c) == c.kind = "fail" /\ c.from = StateClosed /\ c.to = StateOpen

\* C21: from CLOSED, failureThreshold failing Execute calls in a row leave the
\* breaker OPEN, and a call trips it only as the last of failureThreshold failing
\* calls in a row that started in CLOSED; an Execute call that starts while the
\* breaker is OPEN and the reset timeout has not passed since the last failure
\* returns the error without calling fn and leaves the breaker OPEN.
C21_TripsAtThresholdAndRejectsWhileOpen ==
    /\ \A i \in DOMAIN cbLog :
         FailedRun(cbLog, i, cb.failureThreshold) => cbLog[i].to = StateOpen
    /\ \A i \in DOMAIN ExecuteLog :
         Tripped(ExecuteLog[i]) =>
             /\ i >= cb.failureThreshold
             /\ \A j \in (i - cb.failureThreshold + 1)..i :
                  ExecuteLog[j].kind = "fail" /\ ExecuteLog[j].from = StateClosed
    /\ \A i \in DOMAIN ExecuteLog :
         ExecuteLog[i].from = StateOpen /\ ~ExecuteLog[i].expired =>
             /\ ExecuteLog[i].kind = "rejected"
             /\ ~ExecuteLog[i].invoked
             /\ ExecuteLog[i].to = StateOpen

\* a breaker with a threshold above one tripped, and then rejected a call
C21_Witness ==
    /\ cb.failureThreshold > 1
    /\ \E i \in DOMAIN cbLog : Tripped(cbLog[i])
    /\ \E i \in DOMAIN cbLog : cbLog[i].kind = "rejected"
    /\ cb.state = StateOpen

\* C22: an Execute call that starts while the breaker is OPEN and the reset timeout
\* has passed moves it to HALF_OPEN and calls fn; in HALF_OPEN the second successful
\* call in a row closes the breaker and the first does not, one failing call opens
\* it again; no Execute call takes the breaker from OPEN to CLOSED.
C22_HalfOpenProbe ==
    \A i \in DOMAIN ExecuteLog :
        LET c == ExecuteLog[i]
            afterSuccess == /\ i > 1
                            /\ ExecuteLog[i - 1].kind = "ok"
                            /\ ExecuteLog[i - 1].admitted = StateHalfOpen
        IN  /\ c.from = StateOpen /\ c.expired =>
                c.admitted = StateHalfOpen /\ c.invoked
            /\ c.kind = "ok" /\ c.admitted = StateHalfOpen /\ afterSuccess =>
                c.to = StateClosed
            /\ c.kind = "ok" /\ c.admitted = StateHalfOpen /\ ~afterSuccess =>
                c.to = StateHalfOpen
            /\ c.kind = "fail" /\ c.admitted = StateHalfOpen => c.to = StateOpen
            /\ c.from = StateOpen => c.to # StateClosed

\* the breaker tripped, was probed after the timeout and closed again
C22_Witness ==
    /\ \E i \in DOMAIN cbLog : Tripped(cbLog[i])
    /\ \E i \in DOMAIN cbLog :
         /\ cbLog[i].kind = "ok"
         /\ cbLog[i].from = StateOpen
         /\ cbLog[i].admitted = StateHalfOpen
    /\ cbLog[Len(cbLog)].kind = "ok"
    /\ cbLog[Len(cbLog)].to = StateClosed
    /\ cbLog[Len(cbLog)].admitted = StateHalfOpen

(***************************************************************************)
(* Properties of WithRetry (RetrySpec)                                     *)
(***************************************************************************)
\* some pattern occurs in the message, letter case aside
MatchesSome(msg, patterns) ==
    \E i \in DOMAIN patterns : Contains(ToLower(msg), ToLower(patterns[i]))

\* the i-th call of fn is the last one: it returned nil, or an error that matches
\* none of a non-empty pattern list, or it was call number MaxRetries + 1
LastCall(w, i) ==
    \/ w.returns[i].isNil
    \/ /\ Len(w.policy.RetryableErrs) > 0
       /\ ~MatchesSome(w.returns[i].msg, w.policy.RetryableErrs)
    \/ i = w.policy.MaxRetries + 1

\* C23: WithRetry calls fn at most MaxRetries + 1 times and returns; it stops at the
\* first call that returns nil (Succeeded = true), at the first error that matches
\* none of RetryableErrs (an empty list matches every error), and else after
\* MaxRetries + 1 failed calls (Succeeded = false); Attempts is the number of calls.
C23_RetryBoundedAndTerminates ==
    /\ [](/\ Len(retry.returns) <= retry.policy.MaxRetries + 1 \/ Len(retry.returns) = 0
          /\ retry.result.Attempts = Len(retry.returns)
          /\ \A i \in 1..(Len(retry.returns) - 1) : ~LastCall(retry, i)
          /\ retry.running /\ Len(retry.returns) > 0 =>
                ~LastCall(retry, Len(retry.returns))
          /\ retry.done /\ Len(retry.returns) > 0 =>
                /\ LastCall(retry, Len(retry.returns))
                /\ retry.result.Succeeded = retry.returns[Len(retry.returns)].isNil
          /\ retry.done /\ Len(retry.returns) = 0 =>
                retry.policy.MaxRetries < 0 /\ ~retry.result.Succeeded)
    /\ (retry.running ~> retry.done)

\* WithRetry gave up after MaxRetries + 1 failed calls, three or more, each of them
\* an error that a non-empty pattern list matches
C23_Witness ==
    /\ retry.done
    /\ ~retry.result.Succeeded
    /\ Len(retry.returns) = retry.policy.MaxRetries + 1
    /\ Len(retry.returns) >= 3
    /\ Len(retry.policy.RetryableErrs) > 0
    /\ \A i \in DOMAIN retry.returns :
         MatchesSome(retry.returns[i].msg, retry.policy.RetryableErrs)

(***************************************************************************)
(* Properties of the built-in policies (BuiltinSpec)                       *)
(***************************************************************************)
\* Engine.Evaluate returned with the built-in policies loaded
BuiltinsReturned == PolicyReturned /\ policies = BuiltinPolicies

WorldOpenCidr(params) ==
    Has(params, "cidr") /\ Sprint(params["cidr"]) \in {"0.0.0.0/0", "::/0"}
SensitivePort(params) ==
    Has(params, "port") /\ Sprint(params["port"]) \in {"22", "3389", "3306", "5432"}

\* C24: for a security group skill, no_wide_open_sg reports a violation exactly when
\* cidr is 0.0.0.0/0 or ::/0 and port is 22, 3389, 3306 or 5432; a world-open cidr
\* with another port or with no port is not a violation.
C24_WideOpenOnlyOnSensitivePorts ==
    (BuiltinsReturned /\ matchSkillPattern(req.skill.Name, p_aws_sg)) =>
        ("no_wide_open_sg" \in Cited(policyResult)
            <=> (WorldOpenCidr(req.params) /\ SensitivePort(req.params)))

\* the time is inside the window 09:00-17:00 UTC, Monday to Friday
InDeployWindow(now) ==
    /\ now.weekday \notin {Saturday, Sunday}
    /\ now.hour >= 9
    /\ now.hour < 17

\* C25: for a deployment to production, production_deploy_window reports a violation
\* exactly outside 09:00-17:00 UTC, Monday to Friday: on Saturday and Sunday, before
\* 09:00 and from 17:00 on (17:30 included), and none from 09:00 up to 17:00 on a
\* weekday.
C25_DeployWindowEndsAt17 ==
    (BuiltinsReturned /\ req \in WindowRequests) =>
        ("production_deploy_window" \in Cited(policyResult) <=> ~InDeployWindow(req.now))

\* C28: every environment the safety layer treats as production is in the scope of
\* production_deploy_window, require_peer_review and no_direct_prod_access: there a
\* Critical terraform.apply or k8s.deploy without _peer_reviewer is cited by
\* require_peer_review, a deployment at night by production_deploy_window, and
\* aws.ec2.scale without _iac_managed by no_direct_prod_access.
C28_ProductionScopeCoversSafetyNames ==
    (BuiltinsReturned /\ req \in ScopeRequests /\ isProductionEnvironment(req.env)) =>
        /\ (/\ req.skill.Name \in {n_terraform_apply, n_k8s_deploy}
            /\ req.skill.RiskLevel >= RiskCritical
            /\ ~Has(req.params, "_peer_reviewer"))
              => "require_peer_review" \in Cited(policyResult)
        /\ (/\ req.skill.Name \in {n_terraform_apply, n_k8s_deploy}
            /\ req.now.hour > 17)
              => "production_deploy_window" \in Cited(policyResult)
        /\ (/\ req.skill.Name = n_aws_ec2_scale
            /\ ~Has(req.params, "_iac_managed"))
              => "no_direct_prod_access" \in Cited(policyResult)

(***************************************************************************)
(* Properties of access control at the escalated risk level (AuthSpec)     *)
(***************************************************************************)
\* the skill at the risk level the safety layer reports for the request
Escalated(skill, params, env) ==
    [skill EXCEPT !.RiskLevel = Layer_Evaluate(skill, params, env).RiskLevel]

\* C26: with the default permissions CanExecute allows the skill at its own risk
\* level exactly when it allows the skill at the risk level the safety layer reports
\* for the same environment, for every role, risk level and environment.
C26_SameVerdictAtEscalatedRisk ==
    CanExecuteReturned =>
        result.verdict.allowed
            = Rbac_CanExecute(users, rbacEnabled, result.user,
                              Escalated(req.skill, req.params, req.env), req.env).allowed

\* an Admin was allowed a Low-risk skill in production, which the safety layer
\* reports as High
C26_Witness ==
    /\ CanExecuteReturned
    /\ rbacEnabled
    /\ result.user \in DOMAIN users
    /\ RoleOf(result.user) = RoleAdmin
    /\ req.skill.RiskLevel = RiskLow
    /\ req.env = e_Production
    /\ Escalated(req.skill, req.params, req.env).RiskLevel = RiskHigh
    /\ result.verdict.allowed

(***************************************************************************)
(* Properties of the confirmation prompt (SafetySpec)                      *)
(***************************************************************************)
\* C27: in every report of Evaluate, RequiresConfirmation = true comes with a
\* non-empty ConfirmationPrompt, for every risk level, RequiresConfirmation flag and
\* environment.
C27_ConfirmationHasPrompt ==
    (SafetyReturned /\ report.RequiresConfirmation) => report.ConfirmationPrompt # <<>>

(***************************************************************************)
(* Properties of the circuit breaker called from several goroutines        *)
(* (SharedBreakerSpec) and of Reset (BreakerSpec)                          *)
(***************************************************************************)
\* goroutine g's Execute call returns in this step, after fn has run
Completes(g) == cbCalls[g].pc = "fn" /\ cbCalls'[g].pc = "idle"

\* C29: an Execute call that was admitted while the breaker was CLOSED and returns
\* after the breaker has moved to OPEN or HALF_OPEN leaves the state, the success
\* count and the failure count as they are.
C29_OutcomeCountsInAdmittedState ==
    [][\A g \in BreakerCallers :
         (/\ Completes(g)
          /\ cbCalls[g].admitted = StateClosed
          /\ cb.state \in {StateOpen, StateHalfOpen})
            => /\ cb'.state = cb.state
               /\ cb'.successCount = cb.successCount
               /\ cb'.failureCount = cb.failureCount]_vars

\* C30: after Reset the breaker is as NewCircuitBreaker leaves it, CLOSED with both
\* counters at zero, whatever its state before, so that a call trips it only as the
\* last of failureThreshold failing calls in a row with no Reset among them.
C30_ResetIsFresh ==
    /\ (Len(cbLog) > 0 /\ cbLog[Len(cbLog)].kind = "reset") =>
           cb = NewCircuitBreaker(cb.failureThreshold)
    /\ \A i \in DOMAIN cbLog :
         Tripped(cbLog[i]) => FailedRun(cbLog, i, cb.failureThreshold)
====
